---- MODULE Spec2Model ----
(***************************************************************************)
(* A model of ros2msg_to_rs: the parser of .msg declarations               *)
(* (src/src/parser.rs) and the Generator that resolves their types and     *)
(* emits the lines of the Rust file (src/src/generator.rs).                *)
(*                                                                         *)
(* Text is modelled as text: a type or an output line is a TLA+ string     *)
(* built by concatenation as format!() builds it, and so is the input of   *)
(* the parser.                                                             *)
(***************************************************************************)
EXTENDS Integers, Sequences, FiniteSets, TLC

VARIABLES
    g,        \* the Generator: libs, lib_name, safe_drive_path, disable_common_interfaces
    call,     \* the call made last on g: fn, self (g before the call), its arguments
    ret,      \* what that call left: ok (FALSE: it panicked), out, lines, stdout, calls
    fs,       \* the files generate_msgs has created under the target directory
    mem,      \* the values the emitted code has made, with the native calls on each
    build     \* how the program was built: overflow_checks (on in a debug build)

vars == <<g, call, ret, fs, mem, build>>

(***************************************************************************)
(* Bounds of the model.                                                    *)
(***************************************************************************)
\* array bounds and string bounds are drawn from 0..MaxN
MaxN == 2
\* gen_msg is given at most MaxExprs declarations, gen_srv at most MaxExprs
\* in its two halves together
MaxExprs == 2
\* a .msg file has at most MaxLines lines
MaxLines == 3
\* the emitted code makes at most MaxValues values
MaxValues == 2
\* a string literal is written with at most MaxChars characters and escapes
MaxChars == 2
\* a directory holds at most MaxFiles files
MaxFiles == 2

(***************************************************************************)
(* Option<T>: None, Some(x).                                               *)
(***************************************************************************)
None == <<>>
Some(x) == <<x>>

(***************************************************************************)
(* parser.rs: ArrayInfo and TypeName.                                      *)
(***************************************************************************)
NotArray == [tag |-> "NotArray"]
Dynamic == [tag |-> "Dynamic"]
Static(n) == [tag |-> "Static", n |-> n]
Limited(n) == [tag |-> "Limited", n |-> n]

Type(type_name, array_info) ==
    [tag |-> "Type", type_name |-> type_name, array_info |-> array_info]
ScopedType(scope, type_name, array_info) ==
    [tag |-> "ScopedType", scope |-> scope, type_name |-> type_name,
     array_info |-> array_info]
LimitedString(size, array_info) ==
    [tag |-> "LimitedString", size |-> size, array_info |-> array_info]
String(array_info) == [tag |-> "String", array_info |-> array_info]

(***************************************************************************)
(* What a method of the Generator leaves behind: ok is FALSE when it       *)
(* panicked (out is then the panic message), libs is self.libs after the   *)
(* call, stdout the lines it printed, calls the helpers it went through.   *)
(***************************************************************************)
Returned(self, out) ==
    [ok |-> TRUE, out |-> out, libs |-> self.libs, stdout |-> <<>>, calls |-> <<>>]
Panicked(self, msg) ==
    [ok |-> FALSE, out |-> msg, libs |-> self.libs, stdout |-> <<>>, calls |-> <<>>]
\* r, having first printed printed and gone through through
After(printed, through, r) ==
    [r EXCEPT !.stdout = printed \o @, !.calls = through \o @]

(***************************************************************************)
(* generator.rs: the table of primitive types.                             *)
(***************************************************************************)
\* a faulty table: uint8 takes the signed entry
gen_primitives_signed(type_name) ==
    CASE type_name = "bool" -> Some("bool")
      [] type_name = "int8" -> Some("i8")
      [] type_name = "uint8" -> Some("i8")
      [] type_name = "int16" -> Some("i16")
      [] type_name = "uint16" -> Some("u16")
      [] type_name = "int32" -> Some("i32")
      [] type_name = "uint32" -> Some("u32")
      [] type_name = "int64" -> Some("i64")
      [] type_name = "uint64" -> Some("u64")
      [] type_name = "float32" -> Some("f32")
      [] type_name = "float64" -> Some("f64")
      [] type_name = "byte" -> Some("u8")
      [] type_name = "char" -> Some("i8")
      [] OTHER -> None

gen_primitives(type_name) ==
    CASE type_name = "bool" -> Some("bool")
      [] type_name = "int8" -> Some("i8")
      [] type_name = "uint8" -> Some("u8")
      [] type_name = "int16" -> Some("i16")
      [] type_name = "uint16" -> Some("u16")
      [] type_name = "int32" -> Some("i32")
      [] type_name = "uint32" -> Some("u32")
      [] type_name = "int64" -> Some("i64")
      [] type_name = "uint64" -> Some("u64")
      [] type_name = "float32" -> Some("f32")
      [] type_name = "float64" -> Some("f64")
      [] type_name = "byte" -> Some("u8")
      [] type_name = "char" -> Some("i8")
      [] OTHER -> None

(***************************************************************************)
(* generator.rs: Generator::gen_seq_type.                                  *)
(***************************************************************************)
Year2038(self, type_name, type_str) ==
    "Warning: " \o self.lib_name \o "::" \o type_name
        \o " uses builtin_interfaces::" \o type_str
        \o " which causes the year-2038 problem."

\* a faulty wrapper name: the capacity is left out, 0 written in its place
SeqOf_unbounded(self, name, size) ==
    self.safe_drive_path \o "::msg::" \o name \o "<0>"

SeqOf(self, name, size) ==
    self.safe_drive_path \o "::msg::" \o name \o "<" \o ToString(size) \o ">"

gen_seq_type(self, scope, type_str, size, type_name) ==
    CASE type_str = "bool" -> Returned(self, SeqOf(self, "BoolSeq", size))
      [] type_str = "i8" -> Returned(self, SeqOf(self, "I8Seq", size))
      [] type_str = "i16" -> Returned(self, SeqOf(self, "I16Seq", size))
      [] type_str = "i32" -> Returned(self, SeqOf(self, "I32Seq", size))
      [] type_str = "i64" -> Returned(self, SeqOf(self, "I64Seq", size))
      [] type_str = "u8" -> Returned(self, SeqOf(self, "U8Seq", size))
      [] type_str = "u16" -> Returned(self, SeqOf(self, "U16Seq", size))
      [] type_str = "u32" -> Returned(self, SeqOf(self, "U32Seq", size))
      [] type_str = "u64" -> Returned(self, SeqOf(self, "U64Seq", size))
      [] type_str = "f32" -> Returned(self, SeqOf(self, "F32Seq", size))
      [] type_str = "f64" -> Returned(self, SeqOf(self, "F64Seq", size))
      [] OTHER ->
            IF scope = Some("builtin_interfaces")
            THEN After(<<Year2038(self, type_name, type_str)>>, <<>>,
                    CASE type_str = "Time" ->
                            Returned(self, SeqOf(self, "builtin_interfaces::UnsafeTimeSeq", size))
                      [] type_str = "Duration" ->
                            Returned(self, SeqOf(self, "builtin_interfaces::UnsafeDurationSeq", size))
                      [] OTHER ->
                            Panicked(self, "unsupported type: builtin_interfaces::" \o type_str))
            ELSE Returned(self, type_str \o "Seq<" \o ToString(size) \o ">")

(***************************************************************************)
(* generator.rs: Generator::gen_array_type, gen_string_array_type.         *)
(***************************************************************************)
\* a faulty match: Static goes the way of Limited
gen_array_type_growable(self, scope, type_str, array_info, type_name) ==
    CASE array_info.tag = "Dynamic" ->
            After(<<>>, <<"gen_seq_type">>, gen_seq_type(self, scope, type_str, 0, type_name))
      [] array_info.tag \in {"Limited", "Static"} ->
            After(<<>>, <<"gen_seq_type">>,
                  gen_seq_type(self, scope, type_str, array_info.n, type_name))
      [] array_info.tag = "NotArray" -> Returned(self, type_str)

gen_array_type(self, scope, type_str, array_info, type_name) ==
    CASE array_info.tag = "Dynamic" ->
            After(<<>>, <<"gen_seq_type">>, gen_seq_type(self, scope, type_str, 0, type_name))
      [] array_info.tag = "Limited" ->
            After(<<>>, <<"gen_seq_type">>,
                  gen_seq_type(self, scope, type_str, array_info.n, type_name))
      [] array_info.tag = "Static" ->
            Returned(self, "[" \o type_str \o "; " \o ToString(array_info.n) \o "]")
      [] array_info.tag = "NotArray" -> Returned(self, type_str)

\* a faulty match: Dynamic writes strlen where the capacity 0 belongs
gen_string_array_type_strlen(self, type_str, strlen, array_info) ==
    CASE array_info.tag = "Dynamic" ->
            Returned(self, self.safe_drive_path \o "::msg::RosStringSeq<"
                            \o ToString(strlen) \o ", " \o ToString(strlen) \o ">")
      [] array_info.tag = "Limited" ->
            Returned(self, self.safe_drive_path \o "::msg::RosStringSeq<"
                            \o ToString(strlen) \o ", " \o ToString(array_info.n) \o ">")
      [] array_info.tag = "Static" ->
            Returned(self, "[" \o type_str \o "; " \o ToString(array_info.n) \o "]")
      [] array_info.tag = "NotArray" -> Returned(self, type_str)

gen_string_array_type(self, type_str, strlen, array_info) ==
    CASE array_info.tag = "Dynamic" ->
            Returned(self, self.safe_drive_path \o "::msg::RosStringSeq<"
                            \o ToString(strlen) \o ", 0>")
      [] array_info.tag = "Limited" ->
            Returned(self, self.safe_drive_path \o "::msg::RosStringSeq<"
                            \o ToString(strlen) \o ", " \o ToString(array_info.n) \o ">")
      [] array_info.tag = "Static" ->
            Returned(self, "[" \o type_str \o "; " \o ToString(array_info.n) \o "]")
      [] array_info.tag = "NotArray" -> Returned(self, type_str)

(***************************************************************************)
(* generator.rs: Generator::gen_type, gen_const_type.                      *)
(***************************************************************************)
\* a faulty match: an unknown name under builtin_interfaces is taken for a
\* message of an external package
scoped_type_str_defaulted(self, scope, type_name, msg_type_name) ==
    IF self.lib_name = scope
    THEN Returned(self, type_name)
    ELSE IF scope = "builtin_interfaces" /\ type_name \in {"Time", "Duration"}
    THEN After(<<Year2038(self, msg_type_name, type_name)>>, <<>>,
               Returned(self, "builtin_interfaces::Unsafe" \o type_name))
    ELSE Returned([self EXCEPT !.libs = @ \cup {scope}], scope \o "::msg::" \o type_name)

\* a faulty match: the scope of another package is not inserted into libs
scoped_type_str_unrecorded(self, scope, type_name, msg_type_name) ==
    IF self.lib_name = scope
    THEN Returned(self, type_name)
    ELSE IF scope = "builtin_interfaces"
    THEN After(<<Year2038(self, msg_type_name, type_name)>>, <<>>,
               CASE type_name = "Time" -> Returned(self, "builtin_interfaces::UnsafeTime")
                 [] type_name = "Duration" ->
                        Returned(self, "builtin_interfaces::UnsafeDuration")
                 [] OTHER ->
                        Panicked(self, "unsupported type: builtin_interfaces::" \o type_name))
    ELSE Returned(self, scope \o "::msg::" \o type_name)

\* the type_str of a ScopedType: the match on scope and type_name, which
\* prints the warning, panics or inserts the scope into libs
scoped_type_str(self, scope, type_name, msg_type_name) ==
    IF self.lib_name = scope
    THEN Returned(self, type_name)
    ELSE IF scope = "builtin_interfaces"
    THEN After(<<Year2038(self, msg_type_name, type_name)>>, <<>>,
               CASE type_name = "Time" -> Returned(self, "builtin_interfaces::UnsafeTime")
                 [] type_name = "Duration" ->
                        Returned(self, "builtin_interfaces::UnsafeDuration")
                 [] OTHER ->
                        Panicked(self, "unsupported type: builtin_interfaces::" \o type_name))
    ELSE Returned([self EXCEPT !.libs = @ \cup {scope}], scope \o "::msg::" \o type_name)

\* gen_array_type called on the type_str that t holds, unless t panicked
then_array_type(self, scope, t, array_info, msg_type_name) ==
    IF t.ok
    THEN After(t.stdout, <<"gen_array_type">>,
               gen_array_type([self EXCEPT !.libs = t.libs], scope, t.out, array_info,
                              msg_type_name))
    ELSE t

prim_or_name(prim, type_name) == IF prim # None THEN prim[1] ELSE type_name

gen_type(self, type_name, msg_type_name) ==
    CASE type_name.tag = "Type" ->
            then_array_type(self, None,
                Returned(self, prim_or_name(gen_primitives(type_name.type_name),
                                            type_name.type_name)),
                type_name.array_info, msg_type_name)
      [] type_name.tag = "String" ->
            After(<<>>, <<"gen_string_array_type">>,
                  gen_string_array_type(self, self.safe_drive_path \o "::msg::RosString<0>",
                                        0, type_name.array_info))
      [] type_name.tag = "LimitedString" ->
            After(<<>>, <<"gen_string_array_type">>,
                  gen_string_array_type(self,
                        self.safe_drive_path \o "::msg::RosString<"
                            \o ToString(type_name.size) \o ">",
                        type_name.size, type_name.array_info))
      [] type_name.tag = "ScopedType" ->
            then_array_type(self, Some(type_name.scope),
                scoped_type_str(self, type_name.scope, type_name.type_name, msg_type_name),
                type_name.array_info, msg_type_name)

gen_const_type(self, type_name, msg_type_name) ==
    IF type_name.tag = "String"
    THEN After(<<>>, <<"gen_array_type">>,
               gen_array_type(self, None, "&[u8]", type_name.array_info, msg_type_name))
    ELSE After(<<>>, <<"gen_type">>, gen_type(self, type_name, msg_type_name))

(***************************************************************************)
(* parser.rs: Value, ValueType and Expr.  A string value holds its         *)
(* characters, one per element; a float holds its decimal digits.          *)
(***************************************************************************)
VBool(b) == [tag |-> "Bool", b |-> b]
VString(chars) == [tag |-> "String", chars |-> chars]
VFloat(neg, int, frac) == [tag |-> "Float", neg |-> neg, int |-> int, frac |-> frac]
VUint(n) == [tag |-> "Uint", n |-> n]
VInt(n) == [tag |-> "Int", n |-> n]
VArray(vals) == [tag |-> "Array", vals |-> vals]

Const(val) == [tag |-> "Const", val |-> val]
Default(val) == [tag |-> "Default", val |-> val]

Variable(type_name, var_name, value, comment) ==
    [tag |-> "Variable", type_name |-> type_name, var_name |-> var_name,
     value |-> value, comment |-> comment]
Empty == [tag |-> "Empty"]
Comment == [tag |-> "Comment"]
Eof == [tag |-> "Eof"]

\* the characters of cs as one string
RECURSIVE Cat(_)
Cat(cs) == IF cs = <<>> THEN "" ELSE Head(cs) \o Cat(Tail(cs))

\* the character U+0000, which no TLA+ string can hold, as a token
NUL == "<NUL>"
\* the character U+0060 (grave accent), which ends a TLA+ string early, as a token
BQ == "<U+0060>"

(***************************************************************************)
(* parser.rs: impl Display for Value; an array is written with the         *)
(* derived Debug of Vec<Value>.                                            *)
(***************************************************************************)
\* the digits of a float: Display drops an empty fraction, Debug writes .0
FloatDigits(v, debug) ==
    (IF v.neg THEN "-" ELSE "") \o v.int
        \o (IF v.frac # <<>> THEN "." \o Cat(v.frac) ELSE IF debug THEN ".0" ELSE "")

\* <str as Debug>: the characters between the quotes
RECURSIVE EscapeDebug(_)
EscapeDebug(cs) ==
    IF cs = <<>> THEN ""
    ELSE LET c == Head(cs)
         IN  (CASE c = "\"" -> "\\\""
                [] c = "\\" -> "\\\\"
                [] c = "\n" -> "\\n"
                [] c = "\r" -> "\\r"
                [] c = "\t" -> "\\t"
                [] OTHER -> c) \o EscapeDebug(Tail(cs))

RECURSIVE DebugValue(_)
RECURSIVE DebugList(_)
DebugList(vals) ==
    IF vals = <<>> THEN ""
    ELSE DebugValue(Head(vals))
            \o (IF Len(vals) > 1 THEN ", " ELSE "") \o DebugList(Tail(vals))

DebugValue(v) ==
    CASE v.tag = "Int" -> "Int(" \o v.n \o ")"
      [] v.tag = "Uint" -> "Uint(" \o v.n \o ")"
      [] v.tag = "Float" -> "Float(" \o FloatDigits(v, TRUE) \o ")"
      [] v.tag = "String" -> "String(\"" \o EscapeDebug(v.chars) \o "\")"
      [] v.tag = "Bool" -> "Bool(" \o (IF v.b THEN "true" ELSE "false") \o ")"
      [] v.tag = "Array" -> "Array([" \o DebugList(v.vals) \o "])"

DisplayValue(v) ==
    CASE v.tag = "Int" -> v.n
      [] v.tag = "Uint" -> v.n
      [] v.tag = "Float" -> FloatDigits(v, FALSE)
      [] v.tag = "String" -> "b\"" \o Cat(v.chars) \o NUL \o "\""
      [] v.tag = "Bool" -> IF v.b THEN "true" ELSE "false"
      [] v.tag = "Array" -> "[" \o DebugList(v.vals) \o "]"

gen_value(value) == DisplayValue(value)

(***************************************************************************)
(* main.rs: mangle.                                                        *)
(***************************************************************************)
mangle(var_name) ==
    IF var_name \in {"type", "pub", "fn", "match", "if", "while", "break", "continue",
                     "unsafe", "async", "move", "trait", "impl", "for", "i8", "u8", "i16",
                     "u16", "i32", "u32", "i64", "u64", "bool", "char"}
    THEN var_name \o "_"
    ELSE var_name

(***************************************************************************)
(* generator.rs: Generator::gen_expr.  kind is the ExprType returned.      *)
(***************************************************************************)
\* the line format!() makes of the type ty, unless resolving it panicked
expr_line(ty, before, after) ==
    IF ty.ok THEN [ty EXCEPT !.out = before \o @ \o after] ELSE ty

comment_tail(comment) == IF comment # None THEN " //" \o comment[1] ELSE ""

gen_expr(self, expr, msg_type_name) ==
    IF expr.tag = "Variable"
    THEN IF expr.value # None /\ expr.value[1].tag = "Const"
         THEN [kind |-> "Const",
               r |-> expr_line(After(<<>>, <<"gen_const_type">>,
                                     gen_const_type(self, expr.type_name, msg_type_name)),
                               "pub const " \o mangle(expr.var_name) \o ": ",
                               " = " \o gen_value(expr.value[1].val) \o ";"
                                    \o comment_tail(expr.comment))]
         ELSE [kind |-> "Variable",
               r |-> expr_line(After(<<>>, <<"gen_type">>,
                                     gen_type(self, expr.type_name, msg_type_name)),
                               "    pub " \o mangle(expr.var_name) \o ": ",
                               "," \o comment_tail(expr.comment))]
    ELSE [kind |-> "Variable",
          r |-> Panicked(self, "internal error: entered unreachable code")]

(***************************************************************************)
(* generator.rs: the texts of gen_cfun_msg, gen_cfun_srv,                  *)
(* gen_impl_and_seq_msg, gen_impl_and_seq_srv and gen_impl.  A text of     *)
(* several lines, pushed by the code as one element, is the sequence of    *)
(* its lines, as the file written from the elements holds them.            *)
(***************************************************************************)
gen_cfun_msg(module_name, type_name) ==
    <<
        "",
        "extern \"C\" {",
        "    fn " \o module_name \o "__msg__" \o type_name \o "__init(msg: *mut " \o type_name \o ") -> bool;",
        "    fn " \o module_name \o "__msg__" \o type_name \o "__fini(msg: *mut " \o type_name \o ");",
        "    fn " \o module_name \o "__msg__" \o type_name \o "__are_equal(lhs: *const " \o type_name \o ", rhs: *const " \o type_name \o ") -> bool;",
        "    fn " \o module_name \o "__msg__" \o type_name \o "__Sequence__init(msg: *mut " \o type_name \o "SeqRaw, size: usize) -> bool;",
        "    fn " \o module_name \o "__msg__" \o type_name \o "__Sequence__fini(msg: *mut " \o type_name \o "SeqRaw);",
        "    fn " \o module_name \o "__msg__" \o type_name \o "__Sequence__are_equal(lhs: *const " \o type_name \o "SeqRaw, rhs: *const " \o type_name \o "SeqRaw) -> bool;",
        "    fn rosidl_typesupport_c__get_message_type_support_handle__" \o module_name \o "__msg__" \o type_name \o "() -> *const rcl::rosidl_message_type_support_t;",
        "}",
        ""
    >>

gen_cfun_srv(module_name, type_name) ==
    <<
        "",
        "extern \"C\" {",
        "    fn " \o module_name \o "__srv__" \o type_name \o "_Request__init(msg: *mut " \o type_name \o "Request) -> bool;",
        "    fn " \o module_name \o "__srv__" \o type_name \o "_Request__fini(msg: *mut " \o type_name \o "Request);",
        "    fn " \o module_name \o "__srv__" \o type_name \o "_Request__Sequence__init(msg: *mut " \o type_name \o "RequestSeqRaw, size: usize) -> bool;",
        "    fn " \o module_name \o "__srv__" \o type_name \o "_Request__Sequence__fini(msg: *mut " \o type_name \o "RequestSeqRaw);",
        "    fn " \o module_name \o "__srv__" \o type_name \o "_Response__init(msg: *mut " \o type_name \o "Response) -> bool;",
        "    fn " \o module_name \o "__srv__" \o type_name \o "_Response__fini(msg: *mut " \o type_name \o "Response);",
        "    fn " \o module_name \o "__srv__" \o type_name \o "_Response__Sequence__init(msg: *mut " \o type_name \o "ResponseSeqRaw, size: usize) -> bool;",
        "    fn " \o module_name \o "__srv__" \o type_name \o "_Response__Sequence__fini(msg: *mut " \o type_name \o "ResponseSeqRaw);",
        "    fn rosidl_typesupport_c__get_service_type_support_handle__" \o module_name \o "__srv__" \o type_name \o "() -> *const rcl::rosidl_service_type_support_t;",
        "    fn rosidl_typesupport_c__get_message_type_support_handle__" \o module_name \o "__srv__" \o type_name \o "_Request() -> *const rcl::rosidl_message_type_support_t;",
        "    fn rosidl_typesupport_c__get_message_type_support_handle__" \o module_name \o "__srv__" \o type_name \o "_Response() -> *const rcl::rosidl_message_type_support_t;",
        "}",
        ""
    >>

impl_trait_str(module_name, type_name) ==
    <<
        "",
        "impl TypeSupport for " \o type_name \o " {",
        "    fn type_support() -> *const rcl::rosidl_message_type_support_t {",
        "        unsafe {",
        "            rosidl_typesupport_c__get_message_type_support_handle__" \o module_name \o "__msg__" \o type_name \o "()",
        "        }",
        "    }",
        "}",
        "",
        "impl PartialEq for " \o type_name \o " {",
        "    fn eq(&self, other: &Self) -> bool {",
        "        unsafe {",
        "            " \o module_name \o "__msg__" \o type_name \o "__are_equal(self, other)",
        "        }",
        "    }",
        "}",
        "",
        "impl<const N: usize> PartialEq for " \o type_name \o "Seq<N> {",
        "    fn eq(&self, other: &Self) -> bool {",
        "        unsafe {",
        "            let msg1 = " \o type_name \o "SeqRaw{data: self.data, size: self.size, capacity: self.capacity};",
        "            let msg2 = " \o type_name \o "SeqRaw{data: other.data, size: other.size, capacity: other.capacity};",
        "            " \o module_name \o "__msg__" \o type_name \o "__Sequence__are_equal(&msg1, &msg2)",
        "        }",
        "    }",
        "}",
        ""
    >>

struct_srv(module_name, type_name) ==
    <<
        "",
        "pub struct " \o type_name \o ";",
        "",
        "impl ServiceMsg for " \o type_name \o " {",
        "    type Request = " \o type_name \o "Request;",
        "    type Response = " \o type_name \o "Response;",
        "    fn type_support() -> *const rcl::rosidl_service_type_support_t {",
        "        unsafe {",
        "            rosidl_typesupport_c__get_service_type_support_handle__" \o module_name \o "__srv__" \o type_name \o "()",
        "        }",
        "    }",
        "}",
        "",
        "impl TypeSupport for " \o type_name \o "Request {",
        "    fn type_support() -> *const rcl::rosidl_message_type_support_t {",
        "        unsafe {",
        "            rosidl_typesupport_c__get_message_type_support_handle__" \o module_name \o "__srv__" \o type_name \o "_Request()",
        "        }",
        "    }",
        "}",
        "",
        "impl TypeSupport for " \o type_name \o "Response {",
        "    fn type_support() -> *const rcl::rosidl_message_type_support_t {",
        "        unsafe {",
        "            rosidl_typesupport_c__get_message_type_support_handle__" \o module_name \o "__srv__" \o type_name \o "_Response()",
        "        }",
        "    }",
        "}",
        ""
    >>

gen_impl(module_name, type_name, req_resp, c_func_mid, msg_or_srv) ==
    LET mid == IF msg_or_srv = "Msg" THEN "msg" ELSE "srv"
        type_name_full == type_name \o req_resp
    IN
    <<
        "",
        "impl " \o type_name_full \o " {",
        "    pub fn new() -> Option<Self> {",
        "        let mut msg: Self = unsafe { std::mem::MaybeUninit::zeroed().assume_init() };",
        "        if unsafe { " \o module_name \o "__" \o mid \o "__" \o type_name \o c_func_mid \o "__init(&mut msg) } {",
        "            Some(msg)",
        "        } else {",
        "            None",
        "        }",
        "    }",
        "}",
        "",
        "impl Drop for " \o type_name_full \o " {",
        "    fn drop(&mut self) {",
        "        unsafe { " \o module_name \o "__" \o mid \o "__" \o type_name \o c_func_mid \o "__fini(self) };",
        "    }",
        "}",
        "",
        "#[repr(C)]",
        "#[derive(Debug)]",
        "struct " \o type_name_full \o "SeqRaw {",
        "    data: *mut " \o type_name_full \o ",",
        "    size: usize,",
        "    capacity: usize,",
        "}",
        "",
        "/// Sequence of " \o type_name_full \o ".",
        "/// " \o BQ \o "N" \o BQ \o " is the maximum number of elements.",
        "/// If " \o BQ \o "N" \o BQ \o " is " \o BQ \o "0" \o BQ \o ", the size is unlimited.",
        "#[repr(C)]",
        "#[derive(Debug)]",
        "pub struct " \o type_name_full \o "Seq<const N: usize> {",
        "    data: *mut " \o type_name_full \o ",",
        "    size: usize,",
        "    capacity: usize,",
        "}",
        "",
        "impl<const N: usize> " \o type_name_full \o "Seq<N> {",
        "    /// Create a sequence of.",
        "    /// " \o BQ \o "N" \o BQ \o " represents the maximum number of elements.",
        "    /// If " \o BQ \o "N" \o BQ \o " is " \o BQ \o "0" \o BQ \o ", the sequence is unlimited.",
        "    pub fn new(size: usize) -> Option<Self> {",
        "        if N != 0 && size >= N {",
        "            // the size exceeds in the maximum number",
        "            return None;",
        "        }",
        "",
        "        let mut msg: " \o type_name_full \o "SeqRaw = unsafe { std::mem::MaybeUninit::zeroed().assume_init() };",
        "        if unsafe { " \o module_name \o "__" \o mid \o "__" \o type_name \o c_func_mid \o "__Sequence__init(&mut msg, size) } {",
        "            Some(Self {data: msg.data, size: msg.size, capacity: msg.capacity })",
        "        } else {",
        "            None",
        "        }",
        "    }",
        "",
        "    pub fn null() -> Self {",
        "        let msg: " \o type_name_full \o "SeqRaw = unsafe { std::mem::MaybeUninit::zeroed().assume_init() };",
        "        Self {data: msg.data, size: msg.size, capacity: msg.capacity }",
        "    }",
        "",
        "    pub fn as_slice(&self) -> &[" \o type_name_full \o "] {",
        "        if self.data.is_null() {",
        "            &[]",
        "        } else {",
        "            let s = unsafe { std::slice::from_raw_parts(self.data, self.size) };",
        "            s",
        "        }",
        "    }",
        "",
        "    pub fn as_slice_mut(&mut self) -> &mut [" \o type_name_full \o "] {",
        "        if self.data.is_null() {",
        "            &mut []",
        "        } else {",
        "            let s = unsafe { std::slice::from_raw_parts_mut(self.data, self.size) };",
        "            s",
        "        }",
        "    }",
        "",
        "    pub fn iter(&self) -> std::slice::Iter<'_, " \o type_name_full \o "> {",
        "        self.as_slice().iter()",
        "    }",
        "",
        "    pub fn iter_mut(&mut self) -> std::slice::IterMut<'_, " \o type_name_full \o "> {",
        "        self.as_slice_mut().iter_mut()",
        "    }",
        "",
        "    pub fn len(&self) -> usize {",
        "        self.as_slice().len()",
        "    }",
        "",
        "    pub fn is_empty(&self) -> bool {",
        "        self.len() == 0",
        "    }",
        "}",
        "",
        "impl<const N: usize> Drop for " \o type_name_full \o "Seq<N> {",
        "    fn drop(&mut self) {",
        "        let mut msg = " \o type_name_full \o "SeqRaw{data: self.data, size: self.size, capacity: self.capacity};",
        "        unsafe { " \o module_name \o "__" \o mid \o "__" \o type_name \o c_func_mid \o "__Sequence__fini(&mut msg) };",
        "    }",
        "}",
        "",
        "unsafe impl<const N: usize> Send for " \o type_name_full \o "Seq<N> {}",
        "unsafe impl<const N: usize> Sync for " \o type_name_full \o "Seq<N> {}",
        ""
    >>


gen_impl_and_seq_msg(module_name, type_name) ==
    gen_impl(module_name, type_name, "", "", "Msg") \o impl_trait_str(module_name, type_name)

gen_impl_and_seq_srv(module_name, type_name) ==
    gen_impl(module_name, type_name, "Request", "_Request", "Srv")
        \o gen_impl(module_name, type_name, "Response", "_Response", "Srv")
        \o struct_srv(module_name, type_name)

(***************************************************************************)
(* generator.rs: the loop for expr in exprs.iter() of gen_msg and        *)
(* gen_srv: acc holds const_val, the variables of the record, and the      *)
(* Generator's libs and output so far; a panic ends the loop.              *)
(***************************************************************************)
NoExprs(self) ==
    [ok |-> TRUE, out |-> "", const_val |-> <<>>, variables |-> <<>>,
     libs |-> self.libs, stdout |-> <<>>, calls |-> <<>>]

\* acc after the match on e, what gen_expr returned
push(acc, e) ==
    [ok |-> e.r.ok,
     out |-> IF e.r.ok THEN "" ELSE e.r.out,
     const_val |-> IF e.r.ok /\ e.kind = "Const"
                   THEN Append(acc.const_val, e.r.out) ELSE acc.const_val,
     variables |-> IF e.r.ok /\ e.kind = "Variable"
                   THEN Append(acc.variables, e.r.out) ELSE acc.variables,
     libs |-> e.r.libs,
     stdout |-> acc.stdout \o e.r.stdout,
     calls |-> acc.calls \o <<"gen_expr">> \o e.r.calls]

RECURSIVE for_exprs(_, _, _, _)
for_exprs(self, exprs, type_name, acc) ==
    IF exprs = <<>> \/ ~acc.ok THEN acc
    ELSE for_exprs(self, Tail(exprs), type_name,
                   push(acc, gen_expr([self EXCEPT !.libs = acc.libs], Head(exprs),
                                      type_name)))

Generated ==
    "// This file was automatically generated by ros2msg_to_rs (https://github.com/tier4/ros2msg_to_rs)."

\* a faulty body: the placeholder is pushed whether or not there are fields
struct_body_always(variables) == <<"    _unused: u8">> \o variables

\* the fields of a struct, or the placeholder of a struct without fields
struct_body(variables) ==
    IF variables = <<>> THEN <<"    _unused: u8">> ELSE variables

(***************************************************************************)
(* generator.rs: Generator::gen_msg, gen_srv.  lines is the returned       *)
(* VecDeque, empty when the call panicked.                                 *)
(***************************************************************************)
\* what the call leaves: the lines, unless the loop panicked
generated(acc, lines) ==
    [ok |-> acc.ok, out |-> acc.out, libs |-> acc.libs, stdout |-> acc.stdout,
     calls |-> acc.calls, lines |-> IF acc.ok THEN <<Generated>> \o lines ELSE <<>>]

msg_lines(self, module_name, type_name, const_val, variables) ==
    <<"use super::*;",
      "use super::super::super::*;",
      "use " \o self.safe_drive_path \o "::msg::*;",
      "use " \o self.safe_drive_path \o "::rcl;">>
    \o (IF ~self.disable_common_interfaces
        THEN <<"use " \o self.safe_drive_path \o "::msg::common_interfaces::*;">>
        ELSE <<>>)
    \o const_val
    \o gen_cfun_msg(module_name, type_name)
    \o <<"", "#[repr(C)]", "#[derive(Debug)]", "pub struct " \o type_name \o " {">>
    \o struct_body(variables)
    \o <<"}">>
    \o gen_impl_and_seq_msg(module_name, type_name)

srv_lines(self, module_name, type_name, const_val, var_req, var_resp) ==
    <<"use super::super::*;",
      "use super::super::super::*;",
      "use " \o self.safe_drive_path \o "::msg::*;",
      "use " \o self.safe_drive_path \o "::rcl;",
      "use " \o self.safe_drive_path \o "::msg::common_interfaces::*;">>
    \o const_val
    \o gen_cfun_srv(module_name, type_name)
    \o <<"", "#[repr(C)]", "#[derive(Debug)]", "pub struct " \o type_name \o "Request {">>
    \o struct_body(var_req)
    \o <<"}">>
    \o <<"", "#[repr(C)]", "#[derive(Debug)]", "pub struct " \o type_name \o "Response {">>
    \o struct_body(var_resp)
    \o <<"}">>
    \o gen_impl_and_seq_srv(module_name, type_name)

msg_of(self, module_name, type_name, acc) ==
    generated(acc, msg_lines(self, module_name, type_name, acc.const_val, acc.variables))

gen_msg(self, module_name, type_name, exprs) ==
    msg_of(self, module_name, type_name, for_exprs(self, exprs, type_name, NoExprs(self)))

\* the second loop goes on from the first: const_val is shared, the
\* variables of the response start empty
srv_of(self, module_name, type_name, req, resp) ==
    generated(resp, srv_lines(self, module_name, type_name, resp.const_val,
                              req.variables, resp.variables))

srv_resp(self, module_name, type_name, exprs_resp, req) ==
    srv_of(self, module_name, type_name, req,
           for_exprs(self, exprs_resp, type_name, [req EXCEPT !.variables = <<>>]))

gen_srv(self, module_name, type_name, exprs_req, exprs_resp) ==
    srv_resp(self, module_name, type_name, exprs_resp,
             for_exprs(self, exprs_req, type_name, NoExprs(self)))

(***************************************************************************)
(* parser.rs: the parsers.  The input is a text; a parser returns what is  *)
(* left of it and the value parsed, or an error, or panics.                *)
(***************************************************************************)
POk(input, val) == [ok |-> TRUE, panic |-> FALSE, input |-> input, val |-> val]
PErr == [ok |-> FALSE, panic |-> FALSE]
PPanic(msg) == [ok |-> FALSE, panic |-> TRUE, msg |-> msg]

Alpha ==
    {"a", "b", "c", "d", "e", "f", "g", "h", "i", "j", "k", "l", "m", "n", "o", "p", "q",
     "r", "s", "t", "u", "v", "w", "x", "y", "z",
     "A", "B", "C", "D", "E", "F", "G", "H", "I", "J", "K", "L", "M", "N", "O", "P", "Q",
     "R", "S", "T", "U", "V", "W", "X", "Y", "Z"}
Digits == {"0", "1", "2", "3", "4", "5", "6", "7", "8", "9"}

\* the first character of input, "" at its end, and input without its
\* first n characters
first(input) == IF input = "" THEN "" ELSE SubSeq(input, 1, 1)
drop(input, n) == SubSeq(input, n + 1, Len(input))
split_at(input, n) == POk(drop(input, n), SubSeq(input, 1, n))

\* how many characters at the front of input are in class, or are not
RECURSIVE span(_, _)
span(input, class) ==
    IF first(input) \in class THEN 1 + span(drop(input, 1), class) ELSE 0
RECURSIVE span_until(_, _)
span_until(input, stops) ==
    IF input = "" \/ first(input) \in stops THEN 0
    ELSE 1 + span_until(drop(input, 1), stops)

tag(t, input) ==
    IF Len(input) >= Len(t) /\ SubSeq(input, 1, Len(t)) = t
    THEN split_at(input, Len(t)) ELSE PErr
at_least(n, r) == IF Len(r.val) >= n THEN r ELSE PErr
space0(input) == split_at(input, span(input, {" ", "\t"}))
space1(input) == at_least(1, space0(input))
alpha1(input) == at_least(1, split_at(input, span(input, Alpha)))
line_ending(input) ==
    IF first(input) = "\n" THEN split_at(input, 1) ELSE tag("\r\n", input)
\* the text up to the end of the line; a carriage return that no line
\* feed follows is an error
not_line_ending_at(input, n) ==
    IF first(drop(input, n)) = "\r" /\ first(drop(input, n + 1)) # "\n"
    THEN PErr ELSE split_at(input, n)
not_line_ending(input) == not_line_ending_at(input, span_until(input, {"\r", "\n"}))

\* the number a text of decimal digits writes
RECURSIVE number_of(_, _)
number_of(digits, acc) ==
    IF digits = "" THEN acc
    ELSE number_of(drop(digits, 1),
                   10 * acc + (CHOOSE d \in 0..9 : ToString(d) = first(digits)))
\* a number of 64 bits is kept by its decimal digits, without zeros at its
\* front: the digits of the text, whether a is less than b, and a - b for
\* b not greater than a (borrow is what is owed to the digit on the right)
RECURSIVE canonical(_)
canonical(digits) ==
    IF Len(digits) > 1 /\ first(digits) = "0" THEN canonical(drop(digits, 1)) ELSE digits
RECURSIVE dec_less(_, _)
dec_less(a, b) ==
    IF Len(a) # Len(b) THEN Len(a) < Len(b)
    ELSE IF a = "" THEN FALSE
    ELSE IF first(a) # first(b) THEN number_of(first(a), 0) < number_of(first(b), 0)
    ELSE dec_less(drop(a, 1), drop(b, 1))
RECURSIVE dec_sub(_, _, _)
dec_sub(a, b, borrow) ==
    IF a = "" THEN ""
    ELSE IF Len(b) < Len(a) THEN dec_sub(a, "0" \o b, borrow)
    ELSE dec_sub(SubSeq(a, 1, Len(a) - 1), SubSeq(b, 1, Len(b) - 1),
                 IF number_of(drop(a, Len(a) - 1), 0)
                        < number_of(drop(b, Len(b) - 1), 0) + borrow THEN 1 ELSE 0)
         \o ToString((10 + number_of(drop(a, Len(a) - 1), 0)
                          - number_of(drop(b, Len(b) - 1), 0) - borrow) % 10)
\* the digits read are an error if they write more than u64::MAX
u64_of(r) ==
    IF r.ok /\ ~dec_less("18446744073709551615", canonical(r.val))
    THEN POk(r.input, canonical(r.val)) ELSE PErr
u64(input) == u64_of(at_least(1, split_at(input, span(input, Digits))))

peek_tag(c, input) == IF tag(c, input).ok THEN POk(input, c) ELSE PErr
peek_next_of(input) ==
    IF first(input) \in {"=", "-", "\"", "'", "[", "t", "f"} \cup Digits
    THEN POk(input, first(input)) ELSE PErr

\* $ID
identifier_tail(head) ==
    IF head.ok
    THEN POk(drop(head.input, span(head.input, Alpha \cup Digits \cup {"_"})),
             head.val \o SubSeq(head.input, 1,
                                span(head.input, Alpha \cup Digits \cup {"_"})))
    ELSE PErr
parse_identifier(input) ==
    identifier_tail(IF first(input) = "_" THEN split_at(input, 1) ELSE alpha1(input))

\* $ArrayInfo
is_array(input) == tag("[", space0(input).input).ok
close_array_info(size, array_info) ==
    IF size.ok
    THEN IF tag("]", space0(size.input).input).ok
         THEN POk(drop(space0(size.input).input, 1), array_info)
         ELSE PErr
    ELSE PErr
array_info_size(size, limited) ==
    close_array_info(size, IF ~size.ok THEN NotArray
                           ELSE IF limited THEN Limited(number_of(size.val, 0))
                           ELSE Static(number_of(size.val, 0)))
array_info_after(input) ==
    IF peek_tag("]", input).ok THEN close_array_info(POk(input, 0), Dynamic)
    ELSE IF peek_tag("<", input).ok
    THEN IF tag("<=", input).ok THEN array_info_size(u64(drop(input, 2)), TRUE) ELSE PErr
    ELSE array_info_size(u64(input), FALSE)
parse_array_info(input) ==
    IF is_array(input)
    THEN array_info_after(space0(drop(space0(input).input, 1)).input)
    ELSE POk(input, NotArray)

\* $TypeName
typename_of(r, type_name) == IF r.ok THEN POk(r.input, type_name) ELSE PErr
string_type_sized(size) ==
    IF size.ok
    THEN typename_of(parse_array_info(size.input),
                     LimitedString(number_of(size.val, 0),
                                   parse_array_info(size.input).val))
    ELSE PErr
parse_string_type(input) ==
    IF peek_tag("<=", input).ok
    THEN string_type_sized(u64(drop(input, 2)))
    ELSE typename_of(parse_array_info(input), String(parse_array_info(input).val))
scoped_typename(scope, type_name) ==
    IF type_name.ok
    THEN typename_of(parse_array_info(type_name.input),
                     ScopedType(scope, type_name.val,
                                parse_array_info(type_name.input).val))
    ELSE PErr
typename_after(scope) ==
    IF ~scope.ok THEN PErr
    ELSE IF scope.val = "string" THEN parse_string_type(scope.input)
    ELSE IF peek_tag("/", scope.input).ok
    THEN scoped_typename(scope.val, parse_identifier(drop(scope.input, 1)))
    ELSE typename_of(parse_array_info(scope.input),
                     Type(scope.val, parse_array_info(scope.input).val))
parse_typename(input) == typename_after(parse_identifier(input))

\* the characters of a text, one per element
Chars(text) == [i \in 1..Len(text) |-> SubSeq(text, i, i)]

\* $Num.  An exponent is not read: no text drawn writes one.  The
\* fraction is kept by its digits, without the zeros at its end.
RECURSIVE significant(_)
significant(digits) ==
    IF digits # "" /\ SubSeq(digits, Len(digits), Len(digits)) = "0"
    THEN significant(SubSeq(digits, 1, Len(digits) - 1)) ELSE digits
double(input) ==
    IF first(input) = "."
    THEN at_least(1, split_at(drop(input, 1), span(drop(input, 1), Digits)))
    ELSE PErr
\* n as i64 * minus, for minus = -1: n as i64 is n - 2^64 from 2^63 on, and
\* the product of i64::MIN and -1 overflows
as_i64_times_minus(n) ==
    IF dec_less(n.val, "9223372036854775808")
    THEN POk(n.input, VInt((IF n.val = "0" THEN "" ELSE "-") \o n.val))
    ELSE IF n.val = "9223372036854775808"
    THEN IF build.overflow_checks THEN PPanic("attempt to multiply with overflow")
         ELSE POk(n.input, VInt("-9223372036854775808"))
    ELSE POk(n.input, VInt(canonical(dec_sub("18446744073709551616", n.val, 0))))
num_float(neg, n, d) ==
    IF d.ok THEN POk(d.input, VFloat(neg, n, Chars(significant(d.val)))) ELSE PErr
num_of(neg, n) ==
    IF ~n.ok THEN PErr
    ELSE IF peek_tag(".", n.input).ok THEN num_float(neg, n.val, double(n.input))
    ELSE IF neg THEN as_i64_times_minus(n)
    ELSE POk(n.input, VUint(n.val))
parse_num(input) ==
    IF peek_tag("-", input).ok THEN num_of(TRUE, u64(drop(input, 1)))
    ELSE num_of(FALSE, u64(input))

\* $Bool
parse_bool(input) ==
    IF tag("true", input).ok THEN POk(drop(input, 4), VBool(TRUE))
    ELSE IF tag("false", input).ok THEN POk(drop(input, 5), VBool(FALSE))
    ELSE PErr

\* $String: the loop of parse_string, val the characters pushed so far
RECURSIVE string_loop(_, _, _)
string_escape(input, quote, val) ==
    IF first(input) \in {"r", "n", "t", "\\"}
    THEN string_loop(drop(input, 1), quote, val \o <<"\\", first(input)>>)
    ELSE IF first(input) = quote
    THEN string_loop(drop(input, 1), quote,
                     val \o (IF quote = "\"" THEN <<"\\">> ELSE <<>>) \o <<quote>>)
    ELSE PErr
string_loop(input, quote, val) ==
    IF input = "" THEN PErr
    ELSE IF first(input) = quote THEN POk(drop(input, 1), VString(val))
    ELSE IF first(input) = "\\" THEN string_escape(drop(input, 1), quote, val)
    ELSE string_loop(drop(input, 1), quote, Append(val, first(input)))
parse_string(input) ==
    IF first(input) \in {"\"", "'"} THEN string_loop(drop(input, 1), first(input), <<>>)
    ELSE PErr

\* $Value and $Array
RECURSIVE parse_value(_)
RECURSIVE separated_list1(_, _)
spaced(r) == IF r.ok THEN POk(space0(r.input).input, r.val) ELSE r
array_element(input) == spaced(parse_value(space0(input).input))
\* the list goes on with e, the element after a comma, if there is one
list_more(input, vals, e) ==
    IF e.ok THEN separated_list1(e.input, Append(vals, e.val))
    ELSE IF e.panic THEN e
    ELSE POk(input, vals)
separated_list1(input, vals) ==
    IF tag(",", input).ok THEN list_more(input, vals, array_element(drop(input, 1)))
    ELSE POk(input, vals)
list_first(e) == IF e.ok THEN separated_list1(e.input, <<e.val>>) ELSE e
array_close(vals) ==
    IF ~vals.ok THEN vals
    ELSE IF tag("]", vals.input).ok THEN POk(drop(vals.input, 1), VArray(vals.val))
    ELSE PErr
parse_array(input) ==
    IF tag("[", input).ok THEN array_close(list_first(array_element(drop(input, 1))))
    ELSE PErr
\* the alternatives in their order; a panic is not an error to recover from
parse_value(input) ==
    IF parse_num(input).ok \/ parse_num(input).panic THEN parse_num(input)
    ELSE IF parse_bool(input).ok THEN parse_bool(input)
    ELSE IF parse_array(input).ok \/ parse_array(input).panic THEN parse_array(input)
    ELSE parse_string(input)

\* $VarDef
skip_line_ending(input, expr) ==
    IF input = "" THEN POk(input, expr)
    ELSE IF line_ending(input).ok THEN POk(line_ending(input).input, expr)
    ELSE PErr
variable_commented(c, type_name, var_name, value) ==
    IF c.ok
    THEN skip_line_ending(c.input, Variable(type_name, var_name, value, Some(c.val)))
    ELSE PErr
variable_comment(input, type_name, var_name, value) ==
    IF peek_tag("#", input).ok
    THEN variable_commented(not_line_ending(drop(input, 1)), type_name, var_name, value)
    ELSE skip_line_ending(input, Variable(type_name, var_name, value, None))
variable_valued(v, type_name, var_name, const) ==
    IF v.ok
    THEN variable_comment(space0(v.input).input, type_name, var_name,
                          Some(IF const THEN Const(v.val) ELSE Default(v.val)))
    ELSE v
variable_value(input, type_name, var_name) ==
    IF ~peek_next_of(input).ok
    THEN variable_comment(space0(input).input, type_name, var_name, None)
    ELSE IF first(input) = "="
    THEN variable_valued(parse_value(space0(drop(input, 1)).input), type_name, var_name,
                         TRUE)
    ELSE IF first(input) = "\"" THEN PPanic("not yet implemented")
    ELSE variable_valued(parse_value(input), type_name, var_name, FALSE)
variable_named(type_name, var_name) ==
    IF var_name.ok
    THEN variable_value(space0(var_name.input).input, type_name, var_name.val)
    ELSE PErr
variable_typed(type_name, spaces) ==
    IF spaces.ok THEN variable_named(type_name.val, parse_identifier(spaces.input))
    ELSE PErr
parse_variable(input) ==
    IF parse_typename(input).ok
    THEN variable_typed(parse_typename(input), space1(parse_typename(input).input))
    ELSE PErr

\* $Comment
parse_comment(input) ==
    IF tag("#", input).ok /\ not_line_ending(drop(input, 1)).ok
    THEN skip_line_ending(not_line_ending(drop(input, 1)).input, Comment)
    ELSE PErr

\* a faulty parse_empty: the line ending is matched and left in the input
parse_empty_unconsumed(input) ==
    IF input = "" THEN POk(input, Eof)
    ELSE IF line_ending(input).ok THEN POk(input, Empty)
    ELSE PErr
\* empty line or EOF
parse_empty(input) ==
    IF input = "" THEN POk(input, Eof)
    ELSE IF line_ending(input).ok THEN POk(line_ending(input).input, Empty)
    ELSE PErr

\* $Expr: the alternatives in their order, after the spaces
expr_alt(input) ==
    IF parse_empty(input).ok THEN parse_empty(input)
    ELSE IF parse_comment(input).ok THEN parse_comment(input)
    ELSE parse_variable(input)
parse_expr(input) == expr_alt(space0(input).input)

\* $Msg: the loop of parse_msg; an error or a panic of parse_expr ends it
RECURSIVE parse_msg_loop(_, _)
\* a faulty push: the declaration is put before those parsed so far
pushed_front(result, expr) ==
    IF expr.tag = "Variable" THEN <<expr>> \o result ELSE result
\* a faulty push: whatever parse_expr returns is kept
pushed_all(result, expr) == Append(result, expr)
pushed(result, expr) ==
    IF expr.tag = "Variable" THEN Append(result, expr) ELSE result
parse_msg_next(result, r) ==
    IF r.ok THEN parse_msg_loop(r.input, pushed(result, r.val)) ELSE r
parse_msg_loop(input, result) ==
    IF input = "" THEN POk(input, result)
    ELSE parse_msg_next(result, parse_expr(input))
parse_msg(input) == parse_msg_loop(input, <<>>)

(***************************************************************************)
(* The inputs.                                                             *)
(***************************************************************************)
Primitives ==
    {"bool", "int8", "uint8", "int16", "uint16", "int32", "uint32", "int64", "uint64",
     "float32", "float64"}
\* the names a bare type takes: the primitives, byte and char, the name of
\* a target scalar (main.rs:324 declares i64[] arr1) and a message
BareNames == Primitives \cup {"byte", "char", "i64", "Header"}
Scopes == {"my_library", "std_msgs", "builtin_interfaces"}
ScopedNames == {"Time", "Duration", "Header"}
LibNames == {"my_library", "builtin_interfaces"}
SafeDrivePaths == {"safe_drive", "crate"}

ArrayInfos ==
    {NotArray, Dynamic} \cup {Static(n) : n \in 0..MaxN} \cup {Limited(n) : n \in 0..MaxN}

TypeNames ==
    {Type(n, a) : n \in BareNames, a \in ArrayInfos}
        \cup {ScopedType(s, n, a) : s \in Scopes, n \in ScopedNames, a \in ArrayInfos}
        \cup {String(a) : a \in ArrayInfos}
        \cup {LimitedString(k, a) : k \in 0..MaxN, a \in ArrayInfos}

\* the declarations gen_msg and gen_srv are given
Exprs ==
    {Variable(Type("int32", NotArray), "a", None, None),
     Variable(ScopedType("std_msgs", "Header", Dynamic), "type", None, Some(" stamped")),
     Variable(String(NotArray), "S1", Some(Const(VString(<<"a", "b">>))), None),
     Variable(LimitedString(2, NotArray), "S2", Some(Const(VString(<<"a">>))), None),
     Variable(Type("uint32", NotArray), "d", Some(Default(VUint("100"))), None),
     Variable(ScopedType("builtin_interfaces", "Header", Limited(1)), "h", None, None),
     Variable(ScopedType("builtin_interfaces", "Time", NotArray), "t", None, None)}

RECURSIVE SeqsUpTo(_, _)
SeqsUpTo(S, n) ==
    IF n = 0 THEN {<<>>}
    ELSE LET shorter == SeqsUpTo(S, n - 1)
         IN  shorter \cup {Append(s, x) : s \in shorter, x \in S}

\* the name of the record compiled
RecordName == "Sample"

(***************************************************************************)
(* The Generator, and the calls made on it one after the other: a call     *)
(* leaves its result in ret until the caller has taken it.  A panic ends   *)
(* the process.                                                            *)
(***************************************************************************)
Idle == [fn |-> "idle"]
NoResult == [ok |-> TRUE, out |-> "", lines |-> <<>>, stdout |-> <<>>, calls |-> <<>>]
Left(r, ls) ==
    [ok |-> r.ok, out |-> r.out, lines |-> ls, stdout |-> r.stdout, calls |-> r.calls]

\* Generator::new
Init ==
    /\ g \in [libs : {{}}, lib_name : LibNames, safe_drive_path : SafeDrivePaths,
              disable_common_interfaces : BOOLEAN]
    /\ call = Idle
    /\ ret = NoResult
    /\ fs = {}
    /\ mem = <<>>
    /\ build = [overflow_checks |-> FALSE]

GenType(type_name) ==
    /\ call = Idle
    /\ LET r == gen_type(g, type_name, RecordName)
       IN  /\ call' = [fn |-> "gen_type", self |-> g, type_name |-> type_name]
           /\ g' = [g EXCEPT !.libs = r.libs]
           /\ ret' = Left(r, <<>>)
           /\ UNCHANGED <<fs, mem, build>>

GenConstType(type_name) ==
    /\ call = Idle
    /\ LET r == gen_const_type(g, type_name, RecordName)
       IN  /\ call' = [fn |-> "gen_const_type", self |-> g, type_name |-> type_name]
           /\ g' = [g EXCEPT !.libs = r.libs]
           /\ ret' = Left(r, <<>>)
           /\ UNCHANGED <<fs, mem, build>>

GenMsg(exprs) ==
    /\ call = Idle
    /\ LET r == gen_msg(g, g.lib_name, RecordName, exprs)
       IN  /\ call' = [fn |-> "gen_msg", self |-> g, exprs |-> exprs]
           /\ g' = [g EXCEPT !.libs = r.libs]
           /\ ret' = Left(r, r.lines)
           /\ UNCHANGED <<fs, mem, build>>

GenSrv(exprs_req, exprs_resp) ==
    /\ call = Idle
    /\ Len(exprs_req) + Len(exprs_resp) <= MaxExprs
    /\ LET r == gen_srv(g, g.lib_name, RecordName, exprs_req, exprs_resp)
       IN  /\ call' = [fn |-> "gen_srv", self |-> g, exprs_req |-> exprs_req,
                       exprs_resp |-> exprs_resp]
           /\ g' = [g EXCEPT !.libs = r.libs]
           /\ ret' = Left(r, r.lines)
           /\ UNCHANGED <<fs, mem, build>>

\* the caller takes the result
Return ==
    /\ call # Idle
    /\ ret.ok
    /\ call' = Idle
    /\ ret' = NoResult
    /\ UNCHANGED <<g, fs, mem, build>>

Next ==
    \/ \E type_name \in TypeNames : GenType(type_name)
    \/ \E type_name \in TypeNames : GenConstType(type_name)
    \/ \E exprs \in SeqsUpTo(Exprs, MaxExprs) : GenMsg(exprs)
    \/ \E exprs_req, exprs_resp \in SeqsUpTo(Exprs, MaxExprs) : GenSrv(exprs_req, exprs_resp)
    \/ Return

Spec == Init /\ [][Next]_vars

(***************************************************************************)
(* main.rs: generate_msg, on the contents of a .msg file.  A file is       *)
(* drawn line by line; each line is given with what it declares.           *)
(***************************************************************************)
MsgLines ==
    {[text |-> "int32 a", kind |-> "field", name |-> "a"],
     [text |-> "  std_msgs/Header[] type # stamped", kind |-> "field", name |-> "type"],
     [text |-> "string<=2[<=1] names ['a', 'b']#\r", kind |-> "field", name |-> "names"],
     [text |-> "string S1 = 'ab' #c", kind |-> "const", name |-> "S1"],
     [text |-> "float64 K=-1.50\r", kind |-> "const", name |-> "K"],
     [text |-> "string T = \"x\nint32 y\"", kind |-> "const", name |-> "T"],
     [text |-> " \t# int32 z", kind |-> "comment", name |-> ""],
     [text |-> " ", kind |-> "empty", name |-> ""],
     [text |-> "string s \"x\"", kind |-> "unimplemented", name |-> "s"]}

\* the text of the lines, a line feed between two lines and, if the file
\* is terminated, after the last
RECURSIVE Contents(_, _)
Contents(source, terminated) ==
    IF source = <<>> THEN ""
    ELSE Head(source).text
            \o (IF Len(source) > 1 \/ terminated THEN "\n" ELSE "")
            \o Contents(Tail(source), terminated)

\* a faulty match: a file that fails to parse is generated as an empty record
generate_msg_of_lenient(generator, parsed, module_name, type_name) ==
    IF parsed.panic
    THEN [ok |-> FALSE, out |-> parsed.msg, libs |-> generator.libs, stdout |-> <<>>,
          calls |-> <<"parse_msg">>, lines |-> <<>>]
    ELSE After(<<>>, <<"parse_msg", "gen_msg">>,
               gen_msg(generator, module_name, type_name,
                       IF parsed.ok THEN parsed.val ELSE <<>>))
generate_msg_of(generator, parsed, module_name, type_name) ==
    IF parsed.ok
    THEN After(<<>>, <<"parse_msg", "gen_msg">>,
               gen_msg(generator, module_name, type_name, parsed.val))
    ELSE [ok |-> FALSE,
          out |-> IF parsed.panic THEN parsed.msg ELSE "failed to parse: " \o type_name \o ".msg",
          libs |-> generator.libs, stdout |-> <<>>, calls |-> <<"parse_msg">>,
          lines |-> <<>>]
generate_msg(generator, contents, module_name, type_name) ==
    generate_msg_of(generator, parse_msg(contents), module_name, type_name)

\* Generator::new("my_library", "crate", false)
InitMsg ==
    /\ g = [libs |-> {}, lib_name |-> "my_library", safe_drive_path |-> "crate",
            disable_common_interfaces |-> FALSE]
    /\ call = Idle
    /\ ret = NoResult
    /\ fs = {}
    /\ mem = <<>>
    /\ build = [overflow_checks |-> FALSE]

GenerateMsg(source, terminated) ==
    /\ call = Idle
    /\ LET r == generate_msg(g, Contents(source, terminated), g.lib_name, RecordName)
       IN  /\ call' = [fn |-> "generate_msg", self |-> g, source |-> source,
                       contents |-> Contents(source, terminated)]
           /\ g' = [g EXCEPT !.libs = r.libs]
           /\ ret' = Left(r, r.lines)
           /\ UNCHANGED <<fs, mem, build>>

NextMsg ==
    \/ \E source \in SeqsUpTo(MsgLines, MaxLines), terminated \in BOOLEAN :
          GenerateMsg(source, terminated)
    \/ Return

SpecMsg == InitMsg /\ [][NextMsg]_vars

(***************************************************************************)
(* main.rs: generate_msg, on a file of one declaration with a value: a    *)
(* string constant, written with either quote from plain characters and    *)
(* escapes; a constant -D, given with the number that minus D is; a field  *)
(* with a default value of each form of $Value, given with the             *)
(* declaration it is without the default; a constant array, given with the *)
(* texts of its elements (for an element that is an array, of the elements *)
(* of that).                                                               *)
(***************************************************************************)
StringTokens == {"a", "\"", "'", "\\\\", "\\\"", "\\'", "\\r", "\\n", "\\t"}

DeclLines ==
    LET elements == {[text |-> "10", elems |-> <<>>],
                     [text |-> "-2", elems |-> <<>>],
                     [text |-> "1.5", elems |-> <<>>],
                     [text |-> "true", elems |-> <<>>],
                     [text |-> "'a'", elems |-> <<>>],
                     [text |-> "[1, -2]", elems |-> <<"1", "-2">>]}
        RECURSIVE list(_)
        list(es) == IF es = <<>> THEN ""
                    ELSE Head(es).text \o (IF Len(es) > 1 THEN ", " ELSE "") \o list(Tail(es))
    IN
    {[text |-> "int64[] A = [" \o list(es) \o "]", kind |-> "const", name |-> "A",
      elems |-> es] : es \in SeqsUpTo(elements, MaxN) \ {<<>>}}
    \cup
    {[text |-> "string S = " \o quote \o Cat(body) \o quote, kind |-> "const",
      name |-> "S", quote |-> quote, body |-> body] :
        quote \in {"\"", "'"}, body \in SeqsUpTo(StringTokens, MaxChars)}
    \cup {[text |-> "int64 K = -" \o d.digits, kind |-> "const", name |-> "K",
           digits |-> d.digits, minus |-> d.minus] :
            d \in {[digits |-> "0", minus |-> "0"],
                   [digits |-> "5", minus |-> "-5"],
                   [digits |-> "007", minus |-> "-7"],
                   [digits |-> "9223372036854775807", minus |-> "-9223372036854775807"],
                   [digits |-> "9223372036854775808", minus |-> "-9223372036854775808"],
                   [digits |-> "9223372036854775809", minus |-> "-9223372036854775809"],
                   [digits |-> "18446744073709551615", minus |-> "-18446744073709551615"],
                   [digits |-> "18446744073709551616", minus |-> "rejected"]}}
    \cup {[text |-> type \o " d " \o default, kind |-> "field", name |-> "d",
           base |-> type \o " d", default |-> default] :
            type \in {"uint32", "string[]"},
            default \in {"true", "100", "-1.5", "'a'", "\"a\"", "[1, -2]"}}

\* Generator::new("my_library", "crate", false), in a debug or a release build
InitDecl ==
    /\ g = [libs |-> {}, lib_name |-> "my_library", safe_drive_path |-> "crate",
            disable_common_interfaces |-> FALSE]
    /\ call = Idle
    /\ ret = NoResult
    /\ fs = {}
    /\ mem = <<>>
    /\ build \in [overflow_checks : BOOLEAN]

NextDecl ==
    \/ \E line \in DeclLines : GenerateMsg(<<line>>, TRUE)
    \/ Return

SpecDecl == InitDecl /\ [][NextDecl]_vars

(***************************************************************************)
(* main.rs: generate_msgs, on a directory with one module, my_library.     *)
(* call.src is the files of the module in the order WalkDir yields them,   *)
(* call.entry how many of them the loop has gone through, g the Generator  *)
(* of the last turn (a new one is made for every file), fs the files       *)
(* created under the target directory.  An error of generate_msg is        *)
(* returned by `?`: it ends the run, as a panic does.                      *)
(***************************************************************************)
DirFiles ==
    {[type_name |-> "Sample", ext |-> "msg", malformed |-> FALSE, external |-> {},
      source |-> <<[text |-> "int32 a"]>>],
     [type_name |-> "Stamped", ext |-> "msg", malformed |-> FALSE, external |-> {"std_msgs"},
      source |-> <<[text |-> "  std_msgs/Header[] type # stamped"], [text |-> "int32 a"]>>],
     [type_name |-> "Type", ext |-> "msg", malformed |-> FALSE, external |-> {},
      source |-> <<[text |-> "string S1 = 'ab' #c"]>>],
     [type_name |-> "MyStamp", ext |-> "msg", malformed |-> FALSE, external |-> {},
      source |-> <<[text |-> "my_library/Stamped s"]>>],
     [type_name |-> "BadLast", ext |-> "msg", malformed |-> TRUE, external |-> {"std_msgs"},
      source |-> <<[text |-> "std_msgs/Header h"], [text |-> "int32 9a"]>>],
     [type_name |-> "BadFirst", ext |-> "msg", malformed |-> TRUE, external |-> {},
      source |-> <<[text |-> "int32"], [text |-> "int32 a"]>>],
     [type_name |-> "Todo", ext |-> "msg", malformed |-> FALSE, external |-> {},
      source |-> <<[text |-> "string s \"x\""]>>],
     [type_name |-> "README", ext |-> "txt", malformed |-> FALSE, external |-> {},
      source |-> <<[text |-> "int32 a"]>>]}

\* mod_name is empty before the walk; safe_drive_path and
\* disable_common_interfaces are the arguments of the command
InitDir ==
    /\ g = [libs |-> {}, lib_name |-> "", safe_drive_path |-> "safe_drive",
            disable_common_interfaces |-> FALSE]
    /\ call \in {[fn |-> "generate_msgs", src |-> src, entry |-> 0] :
                    src \in {s \in SeqsUpTo(DirFiles, MaxFiles) :
                                \A i, j \in 1..Len(s) : s[i] = s[j] => i = j}}
    /\ ret = NoResult
    /\ fs = {}
    /\ mem = <<>>
    /\ build = [overflow_checks |-> FALSE]

\* {target}/{mod_name}/msg/{snake_type_name}.rs
target_file(type_name) ==
    LET upper == "ABCDEFGHIJKLMNOPQRSTUVWXYZ"
        lower == "abcdefghijklmnopqrstuvwxyz"
        at(i) == SubSeq(type_name, i, i)
        is_upper(c) == \E k \in 1..26 : SubSeq(upper, k, k) = c
        to_lower(c) ==
            IF is_upper(c)
            THEN LET k == CHOOSE k \in 1..26 : SubSeq(upper, k, k) = c
                 IN  SubSeq(lower, k, k)
            ELSE c
        RECURSIVE to_case(_)
        to_case(i) ==
            IF i > Len(type_name) THEN ""
            ELSE (IF i > 1 /\ is_upper(at(i)) /\ ~is_upper(at(i - 1)) THEN "_" ELSE "")
                    \o to_lower(at(i)) \o to_case(i + 1)
    IN  "my_library/msg/" \o mangle(to_case(1)) \o ".rs"

\* one turn of the loop over the entries
Transpile ==
    /\ call.fn = "generate_msgs"
    /\ ret.ok
    /\ call.entry < Len(call.src)
    /\ LET file == call.src[call.entry + 1]
           new == [g EXCEPT !.libs = {}, !.lib_name = "my_library"]
           r == generate_msg(new, Contents(file.source, TRUE), "my_library", file.type_name)
       IN  /\ call' = [call EXCEPT !.entry = @ + 1]
           /\ IF file.ext = "msg"
              THEN /\ g' = [new EXCEPT !.libs = r.libs]
                   /\ ret' = Left(r, r.lines)
                   /\ fs' = IF r.ok
                            THEN {f \in fs : f.path # target_file(file.type_name)}
                                    \cup {[path |-> target_file(file.type_name),
                                           lines |-> r.lines]}
                            ELSE fs
              ELSE UNCHANGED <<g, ret, fs>>
    /\ UNCHANGED <<mem, build>>

\* after the loop: generate_msg_srv_rs writes {target}/{mod_name}/msg.rs
GenerateMsgSrvRs ==
    /\ call.fn = "generate_msgs"
    /\ ret.ok
    /\ call.entry = Len(call.src)
    /\ LET modules == SelectSeq(call.src, LAMBDA file : file.ext = "msg")
           module(i) == SubSeq(target_file(modules[i].type_name), 16,
                               Len(target_file(modules[i].type_name)) - 3)
       IN  fs' = IF modules = <<>> THEN fs
                 ELSE fs \cup {[path |-> "my_library/msg.rs",
                                lines |-> [i \in 1..Len(modules) |-> "mod " \o module(i) \o ";"]
                                            \o <<"">>
                                            \o [i \in 1..Len(modules) |->
                                                  "pub use " \o module(i) \o "::*;"]]}
    /\ call' = [call EXCEPT !.fn = "main"]
    /\ UNCHANGED <<g, ret, mem, build>>

NextDir ==
    \/ Transpile
    \/ GenerateMsgSrvRs

SpecDir == InitDir /\ [][NextDir]_vars

(***************************************************************************)
(* parser.rs: the loops of parse_msg and of parse_string, turn by turn.    *)
(* call.contents is the input the function was called on, call.input what *)
(* is left of it, call.acc what the loop has gathered (result, val),       *)
(* call.turns the turns begun; when the function has returned or panicked, *)
(* call.done holds and call.r is its result.  call.quote is the quote      *)
(* parse_string has read, "" before it has.                                *)
(***************************************************************************)
InitParse ==
    /\ g = [libs |-> {}, lib_name |-> "my_library", safe_drive_path |-> "crate",
            disable_common_interfaces |-> FALSE]
    /\ call \in
          {[fn |-> "parse_msg", contents |-> Contents(source, terminated),
            input |-> Contents(source, terminated), acc |-> <<>>, turns |-> 0,
            done |-> FALSE, r |-> PErr, quote |-> ""] :
              source \in SeqsUpTo({[text |-> "int32 a"],
                                   [text |-> "string<=2[<=1] names ['a', 'b']#\r"],
                                   [text |-> "string T = \"x\nint32 y\""],
                                   [text |-> " \t# int32 z"],
                                   [text |-> " "],
                                   [text |-> "string s \"x\""],
                                   [text |-> "string U = 'a"],
                                   [text |-> "int32 9a"]}, MaxLines),
              terminated \in BOOLEAN}
          \cup
          {[fn |-> "parse_string", contents |-> quote \o Cat(body) \o after,
            input |-> quote \o Cat(body) \o after, acc |-> <<>>, turns |-> 0,
            done |-> FALSE, r |-> PErr, quote |-> ""] :
              quote \in {"\"", "'", "a"}, body \in SeqsUpTo(StringTokens, MaxChars),
              after \in {"", "\" #c", "' #c"}}
    /\ ret = NoResult
    /\ fs = {}
    /\ mem = <<>>
    /\ build = [overflow_checks |-> FALSE]

\* one turn of the loop of parse_msg
ParseMsgTurn ==
    /\ call.fn = "parse_msg"
    /\ ~call.done
    /\ call.turns <= Len(call.contents)
    /\ LET r == parse_expr(call.input)
       IN  call' = IF call.input = ""
                   THEN [call EXCEPT !.done = TRUE, !.r = POk(call.input, call.acc)]
                   ELSE IF r.ok
                   THEN [call EXCEPT !.input = r.input, !.acc = pushed(@, r.val),
                                     !.turns = @ + 1]
                   ELSE [call EXCEPT !.done = TRUE, !.r = r, !.turns = @ + 1]
    /\ UNCHANGED <<g, ret, fs, mem, build>>

\* one_of("\"'"), then one turn of the loop of parse_string
ParseStringTurn ==
    /\ call.fn = "parse_string"
    /\ ~call.done
    /\ call.turns <= Len(call.contents)
    /\ LET c == first(call.input)
           next == drop(call.input, 1)
           failed == [call EXCEPT !.done = TRUE, !.r = PErr, !.turns = @ + 1]
       IN  call' =
             IF call.quote = ""
             THEN IF c \in {"\"", "'"}
                  THEN [call EXCEPT !.quote = c, !.input = next]
                  ELSE [call EXCEPT !.done = TRUE, !.r = PErr]
             ELSE IF call.input = "" THEN failed
             ELSE IF c = call.quote
             THEN [call EXCEPT !.done = TRUE, !.r = POk(next, VString(call.acc)),
                               !.input = next, !.turns = @ + 1]
             ELSE IF c = "\\"
             THEN IF first(next) \in {"r", "n", "t", "\\"}
                  THEN [call EXCEPT !.input = drop(next, 1), !.turns = @ + 1,
                                    !.acc = @ \o <<"\\", first(next)>>]
                  ELSE IF first(next) = call.quote
                  THEN [call EXCEPT !.input = drop(next, 1), !.turns = @ + 1,
                                    !.acc = @ \o (IF call.quote = "\"" THEN <<"\\">> ELSE <<>>)
                                              \o <<call.quote>>]
                  ELSE failed
             ELSE [call EXCEPT !.input = next, !.turns = @ + 1, !.acc = Append(@, c)]
    /\ UNCHANGED <<g, ret, fs, mem, build>>

NextParse ==
    \/ ParseMsgTurn
    \/ ParseStringTurn

SpecParse == InitParse /\ [][NextParse]_vars

(***************************************************************************)
(* generator.rs: gen_impl, the code it emits for a record and for its      *)
(* sequence, as that code runs.  The native functions are those declared   *)
(* by gen_cfun_msg; whether a native construct succeeds is for the native  *)
(* library to say.  A value of mem is a storage: constructed tells whether *)
(* a native construct succeeded on it, alive whether it has an owner, and  *)
(* inits and finis count the native calls made on it.                      *)
(***************************************************************************)
native(self, name) == self.lib_name \o "__msg__" \o RecordName \o name

\* if N != 0 && size >= N
exceeds(N, size) == N # 0 /\ size >= N

Ran(out, calls) ==
    [ok |-> TRUE, out |-> out, lines |-> <<>>, stdout |-> <<>>, calls |-> calls]

\* Sample::new(): the zeroed msg is moved into Some(msg) if __init returns
\* true; if not, it is still owned by new() when new() returns, and dropped
MsgNew(init) ==
    /\ Len(mem) < MaxValues
    /\ call' = [fn |-> "new", type |-> "Sample", init |-> init]
    /\ mem' = Append(mem, [type |-> "Sample", constructed |-> init, alive |-> init,
                           inits |-> 1, finis |-> IF init THEN 0 ELSE 1])
    /\ ret' = Ran(IF init THEN "Some" ELSE "None",
                  <<native(g, "__init")>>
                      \o (IF init THEN <<>> ELSE <<native(g, "__fini")>>))
    /\ UNCHANGED <<g, fs, build>>

\* SampleSeq::<N>::new(size): msg is a SampleSeqRaw, which has no Drop
SeqNew(N, size, init) ==
    /\ Len(mem) < MaxValues
    /\ call' = [fn |-> "new", type |-> "SampleSeq", N |-> N, size |-> size, init |-> init]
    /\ IF exceeds(N, size)
       THEN /\ ret' = Ran("None", <<>>)
            /\ UNCHANGED mem
       ELSE /\ ret' = Ran(IF init THEN "Some" ELSE "None",
                          <<native(g, "__Sequence__init")>>)
            /\ mem' = IF init
                      THEN Append(mem, [type |-> "SampleSeq", constructed |-> TRUE,
                                        alive |-> TRUE, inits |-> 1, finis |-> 0])
                      ELSE mem
    /\ UNCHANGED <<g, fs, build>>

\* SampleSeq::<N>::null()
SeqNull(N) ==
    /\ Len(mem) < MaxValues
    /\ call' = [fn |-> "null", type |-> "SampleSeq", N |-> N]
    /\ mem' = Append(mem, [type |-> "SampleSeq", constructed |-> FALSE, alive |-> TRUE,
                           inits |-> 0, finis |-> 0])
    /\ ret' = Ran("Self", <<>>)
    /\ UNCHANGED <<g, fs, build>>

\* the owner of the value mem[i] lets it go: impl Drop
Drop(i) ==
    /\ mem[i].alive
    /\ call' = [fn |-> "drop", type |-> mem[i].type, value |-> i]
    /\ mem' = [mem EXCEPT ![i].alive = FALSE, ![i].finis = @ + 1]
    /\ ret' = Ran("", <<native(g, IF mem[i].type = "Sample" THEN "__fini"
                                  ELSE "__Sequence__fini")>>)
    /\ UNCHANGED <<g, fs, build>>

NextRun ==
    \/ \E init \in BOOLEAN : MsgNew(init)
    \/ \E N \in 0..MaxN, size \in 0..(MaxN + 1), init \in BOOLEAN : SeqNew(N, size, init)
    \/ \E N \in 0..MaxN : SeqNull(N)
    \/ \E i \in 1..Len(mem) : Drop(i)

SpecRun == InitMsg /\ [][NextRun]_vars

(***************************************************************************)
(* Reading texts.                                                          *)
(***************************************************************************)
Range(s) == {s[i] : i \in 1..Len(s)}
StartsWith(s, prefix) == Len(s) >= Len(prefix) /\ SubSeq(s, 1, Len(prefix)) = prefix
EndsWith(s, suffix) ==
    Len(s) >= Len(suffix) /\ SubSeq(s, Len(s) - Len(suffix) + 1, Len(s)) = suffix
IndexOf(s, x) == IF x \in Range(s) THEN CHOOSE i \in 1..Len(s) : s[i] = x ELSE 0
\* the lines of ls after the line header, up to the next closing brace
StructBody(ls, header) ==
    LET h == CHOOSE i \in 1..Len(ls) : ls[i] = header /\ \A j \in 1..(i - 1) : ls[j] # header
        e == CHOOSE i \in (h + 1)..Len(ls) : ls[i] = "}" /\ \A j \in (h + 1)..(i - 1) : ls[j] # "}"
    IN  SubSeq(ls, h + 1, e - 1)
IsConst(expr) == expr.tag = "Variable" /\ expr.value # None /\ expr.value[1].tag = "Const"
IsField(expr) == expr.tag = "Variable" /\ ~IsConst(expr)
\* the declarations of exprs that declare a field, in their order
RECURSIVE Fields(_)
Fields(exprs) ==
    IF exprs = <<>> THEN <<>>
    ELSE (IF IsField(Head(exprs)) THEN <<Head(exprs)>> ELSE <<>>) \o Fields(Tail(exprs))
Growable(array_info) == array_info.tag \in {"Dynamic", "Limited"}
Capacity(array_info) == IF array_info.tag = "Limited" THEN array_info.n ELSE 0
Scalar(type_name) == [type_name EXCEPT !.array_info = NotArray]
Reserved(type_name) == type_name.tag = "ScopedType" /\ type_name.scope = "builtin_interfaces"

(***************************************************************************)
(* C1                                                                      *)
(***************************************************************************)
TargetScalar(name) ==
    CASE name = "bool" -> "bool"
      [] name = "int8" -> "i8"
      [] name = "uint8" -> "u8"
      [] name = "int16" -> "i16"
      [] name = "uint16" -> "u16"
      [] name = "int32" -> "i32"
      [] name = "uint32" -> "u32"
      [] name = "int64" -> "i64"
      [] name = "uint64" -> "u64"
      [] name = "float32" -> "f32"
      [] name = "float64" -> "f64"

\* C1: resolving a field of one of the 11 primitive types with no array
\* suffix returns exactly the target scalar name of that type, goes through
\* no sequence wrapper, and leaves the dependency set libs as it was.
C1_PrimitiveScalar ==
    (/\ call.fn = "gen_type"
     /\ call.type_name.tag = "Type"
     /\ call.type_name.type_name \in Primitives
     /\ call.type_name.array_info = NotArray)
        => /\ ret.ok
           /\ ret.out = TargetScalar(call.type_name.type_name)
           /\ "gen_seq_type" \notin Range(ret.calls)
           /\ g.libs = call.self.libs

C1_Witness ==
    /\ call.fn = "gen_type"
    /\ call.type_name = Type("uint8", NotArray)
    /\ ret.out = "u8"
    /\ call.self.libs # {}
    /\ g.libs = call.self.libs

(***************************************************************************)
(* C2                                                                      *)
(***************************************************************************)
\* C2: a field of shape Fixed(N) resolves to the array [<base>; N], where
\* <base> is what the same type resolves to without the array suffix (for
\* string<=S the string representation with bound S), and gen_seq_type is
\* never gone through; the base fails to resolve exactly when the array does.
C2_FixedArray ==
    (call.fn = "gen_type" /\ call.type_name.array_info.tag = "Static")
        => LET base == gen_type(call.self, Scalar(call.type_name), RecordName)
               n == ToString(call.type_name.array_info.n)
           IN  /\ ret.ok = base.ok
               /\ ret.ok => ret.out = "[" \o base.out \o "; " \o n \o "]"
               /\ (ret.ok /\ call.type_name.tag = "LimitedString")
                    => ret.out = "[" \o call.self.safe_drive_path \o "::msg::RosString<"
                                    \o ToString(call.type_name.size) \o ">; " \o n \o "]"
               /\ "gen_seq_type" \notin Range(ret.calls)
               /\ ~StartsWith(base.out, "[")

C2_Witness ==
    /\ call.fn = "gen_type"
    /\ call.type_name = LimitedString(2, Static(1))
    /\ call.self.safe_drive_path = "crate"
    /\ ret.ok
    /\ ret.out = "[crate::msg::RosString<2>; 1]"

(***************************************************************************)
(* C3                                                                      *)
(***************************************************************************)
\* C3: a field declared T[<=0] resolves to the same text, character for
\* character, as the field declared T[], for every base type T.
C3_BoundedZeroIsUnbounded ==
    (call.fn = "gen_type" /\ call.type_name.array_info = Limited(0))
        => LET unbounded ==
                    gen_type(call.self, [call.type_name EXCEPT !.array_info = Dynamic],
                             RecordName)
           IN  /\ ret.ok = unbounded.ok
               /\ ret.out = unbounded.out
               /\ ret.ok => EndsWith(ret.out, "0>")

C3_Witness ==
    /\ call.fn = "gen_type"
    /\ call.type_name = LimitedString(2, Limited(0))
    /\ call.self.safe_drive_path = "crate"
    /\ ret.ok
    /\ ret.out = "crate::msg::RosStringSeq<2, 0>"

(***************************************************************************)
(* C4                                                                      *)
(***************************************************************************)
TargetScalars == {"bool", "i8", "i16", "i32", "i64", "u8", "u16", "u32", "u64", "f32", "f64"}
SeqEntry(scalar) ==
    CASE scalar = "bool" -> "BoolSeq"
      [] scalar = "i8" -> "I8Seq"
      [] scalar = "i16" -> "I16Seq"
      [] scalar = "i32" -> "I32Seq"
      [] scalar = "i64" -> "I64Seq"
      [] scalar = "u8" -> "U8Seq"
      [] scalar = "u16" -> "U16Seq"
      [] scalar = "u32" -> "U32Seq"
      [] scalar = "u64" -> "U64Seq"
      [] scalar = "f32" -> "F32Seq"
      [] scalar = "f64" -> "F64Seq"

\* the sequence wrapper the claim names for the type, base being what the
\* type resolves to without its array suffix
SeqWrapper(self, type_name, base) ==
    LET cap == ToString(Capacity(type_name.array_info))
    IN  CASE type_name.tag = "String" ->
                self.safe_drive_path \o "::msg::RosStringSeq<0, " \o cap \o ">"
          [] type_name.tag = "LimitedString" ->
                self.safe_drive_path \o "::msg::RosStringSeq<" \o ToString(type_name.size)
                    \o ", " \o cap \o ">"
          [] OTHER ->
                IF base \in TargetScalars
                THEN self.safe_drive_path \o "::msg::" \o SeqEntry(base) \o "<" \o cap \o ">"
                ELSE base \o "Seq<" \o cap \o ">"

IsSeqWrapper(self, type_name) ==
    /\ ret.ok
    /\ ret.out = SeqWrapper(self, type_name,
                            gen_type(self, Scalar(type_name), RecordName).out)
    /\ ~StartsWith(ret.out, "[")

C5_UnsafeTime ==
    (/\ call.fn = "gen_type"
     /\ Reserved(call.type_name)
     /\ call.type_name.type_name \in {"Time", "Duration"}
     /\ call.self.lib_name # "builtin_interfaces")
        => LET unsafe == "builtin_interfaces::Unsafe" \o call.type_name.type_name
               a == call.type_name.array_info
           IN  /\ ret.ok
               /\ a = NotArray => ret.out = unsafe
               /\ a.tag = "Static" => ret.out = "[" \o unsafe \o "; " \o ToString(a.n) \o "]"
               /\ Growable(a)
                    => EndsWith(ret.out, unsafe \o "Seq<" \o ToString(Capacity(a)) \o ">")

(***************************************************************************)
(* C6                                                                      *)
(***************************************************************************)
Unsupported(type_name) ==
    Reserved(type_name) /\ type_name.type_name \notin {"Time", "Duration"}

\* C6: a type other than Time and Duration referenced under the scope
\* builtin_interfaces from another package is a fatal error in every array
\* shape: resolving it panics, and gen_msg and gen_srv given a declaration
\* of that type return no lines.
C6_UnsupportedIsFatal ==
    call.fn # "idle" /\ call.self.lib_name # "builtin_interfaces"
        => /\ (call.fn \in {"gen_type", "gen_const_type"} /\ Unsupported(call.type_name))
                => ~ret.ok /\ ret.out = "unsupported type: builtin_interfaces::"
                                            \o call.type_name.type_name
           /\ (call.fn = "gen_msg"
                    /\ \E i \in 1..Len(call.exprs) : Unsupported(call.exprs[i].type_name))
                => ~ret.ok /\ ret.lines = <<>>
           /\ (call.fn = "gen_srv"
                    /\ \E e \in Range(call.exprs_req) \cup Range(call.exprs_resp) :
                            Unsupported(e.type_name))
                => ~ret.ok /\ ret.lines = <<>>

C6_Witness ==
    /\ call.fn = "gen_msg"
    /\ call.self.lib_name = "my_library"
    /\ Len(call.exprs) = 2
    /\ ~Unsupported(call.exprs[1].type_name)
    /\ Unsupported(call.exprs[2].type_name)
    /\ ~ret.ok
    /\ ret.lines = <<>>

(***************************************************************************)
(* C7                                                                      *)
(***************************************************************************)
IsStringType(type_name) ==
    type_name.tag \in {"String", "LimitedString"} /\ type_name.array_info = NotArray

\* C7: the type on the line emitted for a constant declared string or
\* string<=N is the borrowed byte view &[u8].
C7_StringConstIsBytes ==
    /\ (call.fn = "gen_const_type" /\ IsStringType(call.type_name))
            => ret.ok /\ ret.out = "&[u8]"
    /\ (call.fn = "gen_msg" /\ ret.ok)
            => \A i \in 1..Len(call.exprs) :
                    IsConst(call.exprs[i]) /\ IsStringType(call.exprs[i].type_name)
                        => \E l \in Range(ret.lines) :
                                StartsWith(l, "pub const " \o mangle(call.exprs[i].var_name)
                                                \o ": &[u8] = ")

(***************************************************************************)
(* C8                                                                      *)
(***************************************************************************)
Placeholder == "    _unused: u8"

\* the struct that opens with header holds the placeholder alone when exprs
\* declares no field, and one line for each field and no placeholder otherwise
BodyMatches(header, exprs) ==
    LET body == StructBody(ret.lines, header)
        fields == Fields(exprs)
    IN  /\ Placeholder \in Range(body) <=> fields = <<>>
        /\ fields = <<>> => body = <<Placeholder>>
        /\ fields # <<>>
            => /\ Len(body) = Len(fields)
               /\ \A k \in 1..Len(body) :
                    StartsWith(body[k], "    pub " \o mangle(fields[k].var_name) \o ": ")

\* C8: the struct of a message, and of each half of a service, holds the
\* placeholder line _unused: u8 if and only if the record declares no field
\* (constants are no fields); otherwise one line for each field.
C8_Placeholder ==
    /\ (call.fn = "gen_msg" /\ ret.ok)
            => BodyMatches("pub struct " \o RecordName \o " {", call.exprs)
    /\ (call.fn = "gen_srv" /\ ret.ok)
            => /\ BodyMatches("pub struct " \o RecordName \o "Request {", call.exprs_req)
               /\ BodyMatches("pub struct " \o RecordName \o "Response {", call.exprs_resp)

C8_Witness ==
    /\ call.fn = "gen_srv"
    /\ ret.ok
    /\ Len(call.exprs_req) = 1 /\ IsConst(call.exprs_req[1])
    /\ Len(call.exprs_resp) = 1 /\ IsField(call.exprs_resp[1])
    /\ StructBody(ret.lines, "pub struct SampleRequest {") = <<Placeholder>>
    /\ StructBody(ret.lines, "pub struct SampleResponse {") = <<"    pub a: i32,">>

(***************************************************************************)
(* C9                                                                      *)
(***************************************************************************)
\* the names the lines of source of the kind declare, in their order
RECURSIVE Declared(_, _)
Declared(source, kind) ==
    IF source = <<>> THEN <<>>
    ELSE (IF Head(source).kind = kind THEN <<Head(source).name>> ELSE <<>>)
            \o Declared(Tail(source), kind)
\* the lines of ls that open with prefix, in their order
Opening(ls, prefix) == SelectSeq(ls, LAMBDA l : StartsWith(l, prefix))
\* line by line, ls declares the names, each after the keyword
DeclareInOrder(ls, keyword, names) ==
    /\ Len(ls) = Len(names)
    /\ \A k \in 1..Len(ls) : StartsWith(ls[k], keyword \o mangle(names[k]) \o ": ")

\* C9: whenever generate_msg has parsed a file and emitted its lines, the
\* k-th field line of the struct declares the name of the k-th line of the
\* file that declares a field, and the "pub const" lines declare the names
\* of the lines of the file that declare a constant, in the order of the
\* file; comments, empty lines and the other kind of declaration between
\* them change nothing.
C9_SourceOrder ==
    (call.fn = "generate_msg" /\ ret.ok)
        => /\ DeclareInOrder(Opening(StructBody(ret.lines, "pub struct Sample {"), "    pub "),
                             "    pub ", Declared(call.source, "field"))
           /\ Opening(StructBody(ret.lines, "pub struct Sample {"), "    pub ")
                  = IF Declared(call.source, "field") = <<>> THEN <<>>
                    ELSE StructBody(ret.lines, "pub struct Sample {")
           /\ DeclareInOrder(Opening(ret.lines, "pub const "), "pub const ",
                             Declared(call.source, "const"))

\* a file of a field, a constant and another field has been compiled
C9_Witness ==
    /\ call.fn = "generate_msg"
    /\ ret.ok
    /\ Len(call.source) = 3
    /\ call.source[1].kind = "field"
    /\ call.source[2].kind = "const"
    /\ call.source[3].kind = "field"
    /\ call.source[1].name # call.source[3].name
    /\ Len(StructBody(ret.lines, "pub struct Sample {")) = 2

(***************************************************************************)
(* C10                                                                     *)
(***************************************************************************)
DeclaresFn(ls, name) == \E l \in Range(ls) : StartsWith(l, "    fn " \o name \o "(")
\* the impl block that opens with header calls the function name
ImplCalls(ls, header, name) ==
    /\ header \in Range(ls)
    /\ \E l \in Range(StructBody(ls, header)) : StartsWith(l, "            " \o name \o "(")

\* the scaffolding of the record full (the Rust type) whose native functions
\* are prefixed by c_name
Scaffolding(ls, c_name, full) ==
    /\ DeclaresFn(ls, c_name \o "__init")
    /\ DeclaresFn(ls, c_name \o "__fini")
    /\ DeclaresFn(ls, c_name \o "__are_equal")
    /\ DeclaresFn(ls, c_name \o "__Sequence__init")
    /\ DeclaresFn(ls, c_name \o "__Sequence__fini")
    /\ DeclaresFn(ls, c_name \o "__Sequence__are_equal")
    /\ DeclaresFn(ls, "rosidl_typesupport_c__get_message_type_support_handle__" \o c_name)
    /\ ImplCalls(ls, "impl PartialEq for " \o full \o " {", c_name \o "__are_equal")
    /\ ImplCalls(ls, "impl<const N: usize> PartialEq for " \o full \o "Seq<N> {",
                 c_name \o "__Sequence__are_equal")

\* C10: the output of gen_srv holds, for the Request and for the Response,
\* the scaffolding of a message record: the seven foreign functions, named
\* with srv and the _Request / _Response suffix, and the equality of the
\* record and of its sequence, forwarding to the native equality functions.
C10_SrvScaffolding ==
    (call.fn = "gen_srv" /\ ret.ok)
        => /\ Scaffolding(ret.lines, call.self.lib_name \o "__srv__" \o RecordName \o "_Request",
                          RecordName \o "Request")
           /\ Scaffolding(ret.lines, call.self.lib_name \o "__srv__" \o RecordName \o "_Response",
                          RecordName \o "Response")

\* the same scaffolding, which the output of gen_msg does hold
MsgScaffolding ==
    (call.fn = "gen_msg" /\ ret.ok)
        => Scaffolding(ret.lines, call.self.lib_name \o "__msg__" \o RecordName, RecordName)

(***************************************************************************)
(* C11                                                                     *)
(***************************************************************************)
\* C11: SampleSeq::<N>::new(size) is turned down by the capacity check, before
\* any native call, exactly when N is not 0 and size is greater than N; when
\* the check passes (size = N included, and every size when N = 0) the native
\* __Sequence__init is called and alone decides between Some and None.
C11_CapacityCheck ==
    (call.fn = "new" /\ call.type = "SampleSeq")
        => /\ (ret.calls = <<>>) <=> (call.N # 0 /\ call.size > call.N)
           /\ ret.calls # <<>>
                => /\ ret.calls = <<native(g, "__Sequence__init")>>
                   /\ (ret.out = "Some") <=> call.init

(***************************************************************************)
(* C12                                                                     *)
(***************************************************************************)
\* C12: on every storage the emitted code has made, of a record or of a
\* sequence, the native destroy is called only if a native construct succeeded
\* on it, at most once, and exactly once by the time the value is let go; a
\* storage whose construct failed or that was never constructed (the zeroed
\* msg of a failed new(), the null() sequence) gets no destroy call.
C12_Lifecycle ==
    \A i \in 1..Len(mem) :
        /\ mem[i].finis <= 1
        /\ mem[i].finis = 1 => mem[i].constructed
        /\ (mem[i].constructed /\ ~mem[i].alive) => mem[i].finis = 1
        /\ ~mem[i].constructed => mem[i].finis = 0

(***************************************************************************)
(* C13                                                                     *)
(***************************************************************************)
\* the character an escape of two characters stands for, in the IDL and in a
\* byte-string literal of the target language alike
Unescaped(c) ==
    CASE c = "n" -> "\n" [] c = "r" -> "\r" [] c = "t" -> "\t" [] OTHER -> c
\* the characters the literal written with the tokens of body denotes
RECURSIVE Denoted(_)
Denoted(body) ==
    IF body = <<>> THEN ""
    ELSE (IF Len(Head(body)) = 2 THEN Unescaped(SubSeq(Head(body), 2, 2)) ELSE Head(body))
            \o Denoted(Tail(body))
\* the bytes of the byte-string literal that opens before text: closed tells
\* whether a quote that no backslash precedes closes it within text
RECURSIVE ByteString(_, _)
ByteString(text, bytes) ==
    IF text = "" THEN [closed |-> FALSE, bytes |-> bytes]
    ELSE IF SubSeq(text, 1, 1) = "\"" THEN [closed |-> TRUE, bytes |-> bytes]
    ELSE IF SubSeq(text, 1, 1) = "\\" /\ Len(text) >= 2
    THEN ByteString(SubSeq(text, 3, Len(text)), bytes \o Unescaped(SubSeq(text, 2, 2)))
    ELSE ByteString(SubSeq(text, 2, Len(text)), bytes \o SubSeq(text, 1, 1))
\* what the constant line writes between before and after
Between(line, before, after) ==
    SubSeq(line, Len(before) + 1, Len(line) - Len(after))

\* C13: whenever a string constant written with either quote, from plain
\* characters and the escapes \\ \" \' \r \n \t, has been accepted and emitted,
\* the text of the constant line between b" and the NUL, read as a byte-string
\* literal, is not closed by a quote before the NUL and yields the characters
\* the IDL literal denotes.
C13_StringRoundTrip ==
    (/\ call.fn = "generate_msg"
     /\ call.source[1].name = "S"
     /\ ret.ok)
        => LET emitted == Between(Opening(ret.lines, "pub const S: ")[1],
                                  "pub const S: &[u8] = b\"", NUL \o "\";")
           IN  /\ ~ByteString(emitted, "").closed
               /\ ByteString(emitted, "").bytes = Denoted(call.source[1].body)

(***************************************************************************)
(* C14                                                                     *)
(***************************************************************************)
\* C14: a declaration Type name Value, with a value of any form (boolean,
\* number, string in single or in double quotes, array) and no = before it, is
\* accepted and compiled, and the struct it is compiled to has the one field
\* line the declaration has without the value; no constant is emitted.
C14_DefaultIgnored ==
    (call.fn = "generate_msg" /\ call.source[1].name = "d")
        => /\ ret.ok
           /\ StructBody(ret.lines, "pub struct Sample {")
                = StructBody(generate_msg(call.self, call.source[1].base \o "\n",
                                          call.self.lib_name, RecordName).lines,
                             "pub struct Sample {")
           /\ Len(StructBody(ret.lines, "pub struct Sample {")) = 1
           /\ Opening(ret.lines, "pub const ") = <<>>

(***************************************************************************)
(* C19                                                                     *)
(***************************************************************************)
\* C19: a constant written -D, for digits D that write a number of 64 bits
\* without sign (up to 18446744073709551615), is accepted and emitted with the
\* value minus D: never a positive number, never another number, also when D
\* is greater than 9223372036854775807.
C19_MinusIsNegative ==
    (/\ call.fn = "generate_msg"
     /\ call.source[1].name = "K"
     /\ call.source[1].minus # "rejected")
        => /\ ret.ok
           /\ Opening(ret.lines, "pub const ")
                = <<"pub const K: i64 = " \o call.source[1].minus \o ";">>

(***************************************************************************)
(* C15                                                                     *)
(***************************************************************************)
\* the declarations gen_expr was called on during the call c that left r
Processed(c, r) ==
    SubSeq(IF c.fn = "gen_msg" THEN c.exprs ELSE c.exprs_req \o c.exprs_resp, 1,
           Len(SelectSeq(r.calls, LAMBDA f : f = "gen_expr")))
\* the types the call c resolved
Resolved(c, r) ==
    IF c.fn \in {"gen_type", "gen_const_type"} THEN {c.type_name}
    ELSE {e.type_name : e \in Range(Processed(c, r))}
\* the scopes of the types that are qualified with another package than lib
\* and than builtin_interfaces
External(lib, types) ==
    {t.scope : t \in {u \in types : u.tag = "ScopedType"
                                     /\ u.scope \notin {lib, "builtin_interfaces"}}}
Contains(text, part) ==
    \E i \in 1..(Len(text) - Len(part) + 1) : SubSeq(text, i, i + Len(part) - 1) = part
SamePackage(c) ==
    /\ c.fn = "gen_type"
    /\ c.type_name.tag = "ScopedType"
    /\ c.type_name.scope = c.self.lib_name

TimeOrDuration(type_name) ==
    Reserved(type_name) /\ type_name.type_name \in {"Time", "Duration"}
Warnings(printed) == SelectSeq(printed, LAMBDA l : StartsWith(l, "Warning: "))

\* C17: in a package other than builtin_interfaces, resolving a field of type
\* builtin_interfaces/Time or builtin_interfaces/Duration, of any array
\* shape, prints exactly one year-2038 warning and succeeds, and a record
\* of such fields is generated with one warning for each of them.
C17_OneWarning ==
    call.fn # "idle" /\ call.self.lib_name # "builtin_interfaces"
        => /\ (call.fn = "gen_type" /\ TimeOrDuration(call.type_name))
                => /\ ret.ok
                   /\ Warnings(ret.stdout)
                        = <<Year2038(call.self, RecordName, call.type_name.type_name)>>
           /\ (call.fn = "gen_msg"
                    /\ \A i \in 1..Len(call.exprs) : TimeOrDuration(call.exprs[i].type_name))
                => /\ ret.ok
                   /\ Len(Warnings(ret.stdout)) = Len(call.exprs)

(***************************************************************************)
(* C20                                                                     *)
(***************************************************************************)
CommonInterfaces(self) == "use " \o self.safe_drive_path \o "::msg::common_interfaces::*;"
Mentions(lines, part) == SelectSeq(lines, LAMBDA l : Contains(l, part))

\* C20: the lines gen_msg and gen_srv return hold no line mentioning
\* common_interfaces when the Generator was made with
\* disable_common_interfaces, and otherwise exactly one, the import.
C20_CommonInterfaces ==
    (call.fn \in {"gen_msg", "gen_srv"} /\ ret.ok)
        => Mentions(ret.lines, "common_interfaces")
             = IF call.self.disable_common_interfaces THEN <<>>
               ELSE <<CommonInterfaces(call.self)>>

(***************************************************************************)
(* C16                                                                     *)
(***************************************************************************)
\* the .msg files compiled so far in the run
Compiled == {i \in 1..call.entry : call.src[i].ext = "msg"}

\* C16: in a run over a directory, after each file compiled the dependency
\* set holds every external package referenced by the files compiled so far.
C16_Accumulates ==
    (call.fn \in {"generate_msgs", "main"} /\ ret.ok)
        => \A i \in Compiled : call.src[i].external \subseteq g.libs

(***************************************************************************)
(* C18                                                                     *)
(***************************************************************************)
\* C18: a file with a line that does not match the grammar is the last one
\* the run looks at: parse_msg returns an error without declarations,
\* gen_msg is not called, and no file is created for it.
C18_NothingForMalformed ==
    call.fn \in {"generate_msgs", "main"}
        => \A i \in Compiled :
              call.src[i].malformed
                => /\ i = call.entry
                   /\ parse_msg(Contents(call.src[i].source, TRUE)) = PErr
                   /\ ~ret.ok
                   /\ ret.out = "failed to parse: " \o call.src[i].type_name \o ".msg"
                   /\ "gen_msg" \notin Range(ret.calls)
                   /\ ret.lines = <<>>
                   /\ g.libs = {}
                   /\ call.fn = "generate_msgs"
                   /\ \A f \in fs : ~Contains(f.path, "bad") /\ f.path # "my_library/msg.rs"
                   /\ Cardinality(fs) = Cardinality(Compiled) - 1

\* after Sample.msg was compiled and written, BadLast.msg, whose second line
\* is malformed, was rejected
C18_Witness ==
    /\ call.fn = "generate_msgs"
    /\ call.entry = 2
    /\ call.src[1].type_name = "Sample"
    /\ call.src[2].type_name = "BadLast"
    /\ ~ret.ok
    /\ {f.path : f \in fs} = {"my_library/msg/sample.rs"}

(***************************************************************************)
(* C21                                                                     *)
(***************************************************************************)
Declarations(source) ==
    SelectSeq(source, LAMBDA line : line.kind \in {"field", "const"})

\* parsed, the result of parse_msg on the file source, holds its
\* declarations and nothing else
VariablesOf(parsed, source) ==
    /\ \A e \in Range(parsed) : e.tag = "Variable"
    /\ [i \in 1..Len(parsed) |-> parsed[i].var_name]
         = [i \in 1..Len(Declarations(source)) |-> Declarations(source)[i].name]

\* C21: when parse_msg succeeds on a file, the list it returns holds one
\* Expr::Variable for each declaration of the file and nothing for a
\* comment, an empty line or the end of the input, and gen_msg, given that
\* list, calls gen_expr once for each without reaching unreachable!().
C21_OnlyVariables ==
    (call.fn = "generate_msg" /\ "gen_msg" \in Range(ret.calls))
        => /\ VariablesOf(parse_msg(call.contents).val, call.source)
           /\ ret.out # "internal error: entered unreachable code"
           /\ SelectSeq(ret.calls, LAMBDA f : f = "gen_expr")
                = [i \in 1..Len(Declarations(call.source)) |-> "gen_expr"]

\* a file of a comment, a field and spaces that no line ending follows has
\* been compiled
C21_Witness ==
    /\ call.fn = "generate_msg"
    /\ Len(call.source) = 3
    /\ call.source[1].kind = "comment"
    /\ call.source[2].kind = "field"
    /\ call.source[3].kind = "empty"
    /\ EndsWith(call.contents, " ")
    /\ parse_expr(" ") = POk("", Eof)
    /\ Len(parse_msg(call.contents).val) = 1
    /\ ret.ok

(***************************************************************************)
(* C23                                                                     *)
(***************************************************************************)
\* the value on the line of the constant A in lines
ValueOfA(lines) ==
    LET line == Opening(lines, "pub const A: ")[1]
        eq == CHOOSE i \in 1..Len(line) :
                 SubSeq(line, i, i + 2) = " = " /\ \A j \in 1..(i - 1) : SubSeq(line, j, j + 2) # " = "
    IN  SubSeq(line, eq + 3, Len(line) - 1)
\* the value as it is rendered when it is the scalar constant int64 A = text
AsScalar(self, text) ==
    ValueOfA(generate_msg(self, "int64 A = " \o text \o "\n", self.lib_name, RecordName).lines)
RECURSIVE Listed(_)
Listed(rendered) ==
    IF rendered = <<>> THEN ""
    ELSE Head(rendered) \o (IF Len(rendered) > 1 THEN ", " ELSE "") \o Listed(Tail(rendered))
\* the element e as the list is to render it
AsElement(self, e) ==
    IF e.elems = <<>> THEN AsScalar(self, e.text)
    ELSE "[" \o Listed([i \in 1..Len(e.elems) |-> AsScalar(self, e.elems[i])]) \o "]"

\* C23: the value on the line of a constant array is the list, in brackets
\* and separated by commas, of its elements, each rendered as it is when it
\* is a scalar constant, and an element that is an array as such a list.
C23_ArrayOfScalars ==
    (call.fn = "generate_msg" /\ call.source[1].name = "A")
        => /\ ret.ok
           /\ ValueOfA(ret.lines)
                = "[" \o Listed([i \in 1..Len(call.source[1].elems) |->
                                    AsElement(call.self, call.source[1].elems[i])]) \o "]"

(***************************************************************************)
(* C22                                                                     *)
(***************************************************************************)
\* C22: every turn of the loop of parse_msg and of the loop of parse_string
\* ends the function or leaves an input that is strictly shorter, and no
\* more turns are begun than the input has characters; parse_msg returns
\* its list only at the empty input; parse_string returns a value only
\* just after the closing quote, and fails only at the end of the input or
\* at a backslash that no escaped character follows.
C22_Terminates ==
    [][/\ call'.done \/ Len(call'.input) < Len(call.input)
       /\ call'.turns <= Len(call.contents)
       /\ (call'.done /\ call.fn = "parse_msg" /\ call'.r.ok)
            => call.input = "" /\ call'.r.input = ""
       /\ (call'.done /\ call.fn = "parse_string" /\ call.quote # "")
            => IF call'.r.ok
               THEN first(call.input) = call.quote /\ call'.r.input = drop(call.input, 1)
               ELSE \/ call.input = ""
                    \/ /\ first(call.input) = "\\"
                       /\ first(drop(call.input, 1)) \notin {"r", "n", "t", "\\", call.quote}]_vars

\* parse_msg has returned the declarations of a file of three lines after
\* three turns, and a fourth look at the input
C22_Witness ==
    /\ call.fn = "parse_msg"
    /\ call.done
    /\ call.r.ok
    /\ call.turns = 3
    /\ Len(call.r.val) = 2
    /\ call.input = ""
    /\ Len(call.contents) > 20

====
